---------------------------- MODULE Spec2Model ----------------------------
(***************************************************************************)
(* State-machine model of the memcp memory engine: the `entity` and        *)
(* `relates` tables (memcp/db.py) and the tool handlers that read and      *)
(* write them: remember and forget (servers/persist.py), search and        *)
(* get_entity (servers/search.py), reflect and check_contradictions        *)
(* (servers/maintenance.py).                                               *)
(*                                                                         *)
(* Numbers.  SurrealDB floats are modelled in fixed point:                 *)
(*   decay_weight in units of 1/WScale (1e-8), importance and              *)
(*   user_importance in units of 1/IScale (1e-3), cosine similarity in     *)
(*   units of 1/SimScale (1e-3).  Time is counted in whole days.           *)
(* Strings that the code splits or compares (record ids) are sequences of  *)
(* one-character strings.                                                  *)
(***************************************************************************)
EXTENDS Integers, Sequences, FiniteSets, TLC

\* ------------------------------------------------------------------ bounds
\* access_count is not incremented past MaxCount by the model's retrievals.
MaxCount == 1
\* The clock does not advance past MaxTime days.
MaxTime == 2
\* The clock counts half days: timedelta(days=1) is Day ticks.
Day == 2
\* Decay passes counted per entity (the decay pass is disabled once an
\* entity has been through MaxPasses of them).
MaxPasses == 24
\* Longest entity list / relation list given to one remember call.
MaxBatch == 2

\* ------------------------------------------------------- program constants
WScale == 100000000
IScale == 1000
SimScale == 1000
\* decay_weight = decay_weight * 0.9
DecayNum == 9
DecayDen == 10
\* ... AND decay_weight > 0.1
DecayFloor == WScale \div 10
\* DEFAULT 1.0 of decay_weight; also the value an access resets it to
FullWeight == WScale
\* DEFAULT 0.5 of importance, and the user score of an entity without
\* user_importance
DefaultImportance == IScale \div 2
\* embedding <|10,40|> : k of the nearest-neighbour query
KnnLimit == 10
\* if sim > 0.5 (bulk contradiction screening)
ContraFloor == SimScale \div 2

\* Python's None where a result or a frame slot is empty
NoValue == "none"
\* An optional number: <<>> is None, <<v>> is the number v
None == <<>>
\* No row under this id
NoEntity == [absent |-> TRUE]

\* ----------------------------------------------------------------- strings
\* Characters in code-point order (digits, then ':', then the letters).
Alphabet ==
    <<"0", "1", "2", "3", "4", "5", "6", "7", "8", "9",
      ":", "a", "b", "c", "d", "e", "i", "n", "t", "y">>

CharCode(ch) == CHOOSE k \in 1..Len(Alphabet) : Alphabet[k] = ch

\* Python's str < str: lexicographic by code point, a proper prefix first.
RECURSIVE StrLess(_, _)
StrLess(s, t) ==
    IF t = <<>> THEN FALSE
    ELSE IF s = <<>> THEN TRUE
    ELSE IF Head(s) = Head(t) THEN StrLess(Tail(s), Tail(t))
    ELSE CharCode(Head(s)) < CharCode(Head(t))

TableName == <<"e", "n", "t", "i", "t", "y">>

\* str(RecordID('entity', id)): "entity:<id>"
RecordIdStr(id) == TableName \o <<":">> \o id

\* Index of the first ':' of s, 0 when there is none.
RECURSIVE FirstColon(_, _)
FirstColon(s, k) ==
    IF k > Len(s) THEN 0
    ELSE IF s[k] = ":" THEN k
    ELSE FirstColon(s, k + 1)

\* record_str.split(':', 1)[1] if ':' in record_str else record_str
extract_record_id(s) ==
    LET k == FirstColon(s, 1)
    IN  IF k = 0 THEN s ELSE SubSeq(s, k + 1, Len(s))

\* The entity ids of the model.  One of them contains a ':'.
Ids == { <<"a">>, <<"b">>, <<"c", ":", "d">> }

\* ---------------------------------------------------------------- numbers
Min(a, b) == IF a < b THEN a ELSE b
Max(a, b) == IF a > b THEN a ELSE b

\* Texts and their embeddings.  embed() is deterministic; the model's texts
\* embed to unit vectors in one plane, named by their angle in degrees.
Contents == {"x", "y", "z"}
embed(content) == CASE content = "x" -> 0
                    [] content = "y" -> 30
                    [] content = "z" -> 60

\* vector::similarity::cosine of two unit vectors of the plane:
\* cos(0) = 1, cos(30) = 0.866, cos(60) = 0.5
Cosine(e1, e2) ==
    LET d == IF e1 > e2 THEN e1 - e2 ELSE e2 - e1
    IN  CASE d = 0 -> SimScale
          [] d = 30 -> 866
          [] d = 60 -> SimScale \div 2


\* ------------------------------------------------------------------- state
VARIABLES
    entity,    \* the entity table: id -> record, or NoEntity
    relates,   \* the relates table: a set of edge records
    now,       \* the clock, in days
    npass,     \* history: per id, the decay passes it was old enough for
               \* since it was created or last accessed
    refl,      \* the frame of the running (or last) reflect call
    cc,        \* the frame of the running (or last) check_contradictions call
    last,      \* the outcome of the tool call that returned last
    parked,    \* the frame of a second reflect call, suspended at an await
    loader     \* embedding.py: the module globals and the threads in them

vars == <<entity, relates, now, npass, refl, cc, last, parked, loader>>

\* ------------------------------------------------------- the entity table
Stored(ent) == {id \in DOMAIN ent : ent[id] # NoEntity}

\* A row created by UPSERT takes the schema's DEFAULTs for the fields the
\* statement does not SET.
NewRow(content, emb, confidence, user_importance, t) ==
    [ content         |-> content,
      emb             |-> emb,
      confidence      |-> confidence,
      user_importance |-> user_importance,
      decay_weight    |-> FullWeight,
      importance      |-> DefaultImportance,
      accessed        |-> t,
      access_count    |-> 0,
      context         |-> None ]

\* UPSERT type::record("entity", $id) SET ..., and user_importance only
\* when the caller gave one.  This is the upsert of a call with no
\* context: context = $context stores NONE.
query_upsert_entity(ent, id, content, emb, confidence, user_importance, t) ==
    IF ent[id] = NoEntity
    THEN [ent EXCEPT ![id] = NewRow(content, emb, confidence, user_importance, t)]
    ELSE [ent EXCEPT ![id] =
            [@ EXCEPT !.content = content,
                      !.emb = emb,
                      !.confidence = confidence,
                      !.context = None,
                      !.user_importance =
                          IF user_importance # None THEN user_importance ELSE @]]

\* UPDATE type::record("entity", $id) SET accessed = time::now(),
\*        access_count += 1, decay_weight = 1.0       (no row: no effect)
query_update_access(ent, id, t) ==
    IF id \in DOMAIN ent /\ ent[id] # NoEntity
    THEN [ent EXCEPT ![id] = [@ EXCEPT !.accessed = t,
                                       !.access_count = @ + 1,
                                       !.decay_weight = FullWeight]]
    ELSE ent

\* SELECT * FROM type::record("entity", $id)
query_get_entity(ent, id) ==
    IF id \in DOMAIN ent /\ ent[id] # NoEntity THEN <<ent[id]>> ELSE <<>>

\* decay_weight * 0.9 in fixed point
DecayStep(w) == (w * DecayNum) \div DecayDen

\* The rows the decay UPDATE's WHERE clause selects.
DecaySelected(ent, cutoff) ==
    {id \in Stored(ent) : ent[id].accessed < cutoff /\ ent[id].decay_weight > DecayFloor}

\* UPDATE entity SET decay_weight = decay_weight * 0.9
\*   WHERE accessed < <datetime>$cutoff AND decay_weight > 0.1
query_apply_decay(ent, cutoff) ==
    [id \in DOMAIN ent |->
        IF id \in DecaySelected(ent, cutoff)
        THEN [ent[id] EXCEPT !.decay_weight = DecayStep(@)]
        ELSE ent[id]]

\* ------------------------------------------------------ the relates table
\* array::sort([<string>in, <string>out])
SortPair(a, b) == IF StrLess(RecordIdStr(b), RecordIdStr(a)) THEN <<b, a>> ELSE <<a, b>>

\* unique_key: string::concat(array::sort([in, out]), rel_type)
\* (mutant) the key keeps the direction of the edge
UniqueKeyMutantDirected(r) == <<<<r.in, r.out>>, r.rel_type>>
unique_key(r) == <<SortPair(r.in, r.out), r.rel_type>>

\* RELATE $from_rec->relates->$to_rec SET rel_type = ..., weight = ...
\* The UNIQUE index unique_relation rejects a row whose unique_key is
\* already indexed; the statement then changes nothing.
query_create_relation(rel, from_id, rel_type, to_id, weight) ==
    LET row == [in |-> from_id, out |-> to_id, rel_type |-> rel_type, weight |-> weight]
    IN  IF \E r \in rel : unique_key(r) = unique_key(row)
        THEN rel
        ELSE rel \cup {row}

\* DELETE type::record("entity", $id): the row goes, and SurrealDB removes
\* the edges that have it as in or out.
DeleteRow(ent, id) == IF id \in DOMAIN ent THEN [ent EXCEPT ![id] = NoEntity] ELSE ent
DeleteEdges(rel, id) == {r \in rel : r.in # id /\ r.out # id}

\* query_get_entity_connectivity: in-degree + out-degree
query_get_entity_connectivity(rel, id) ==
    Cardinality({r \in rel : r.in = id}) + Cardinality({r \in rel : r.out = id})


\* ------------------------------------------------------------- importance
\* math.log10(n) in units of 1/IScale, for n >= 1: exact to the unit below
\* 10, and 1 + log10(n div 10) from there on (monotone, never above log10).
RECURSIVE Log10(_)
Log10(n) ==
    IF n >= 10 THEN IScale + Log10(n \div 10)
    ELSE CASE n = 1 -> 0   [] n = 2 -> 301 [] n = 3 -> 477
           [] n = 4 -> 602 [] n = 5 -> 699 [] n = 6 -> 778
           [] n = 7 -> 845 [] n = 8 -> 903 [] n = 9 -> 954

\* connectivity_score = min(1.0, connectivity / 10.0)
\* (mutant) the score falls as the relations grow
ConnectivityScoreMutantInverse(connectivity) ==
    IScale - Min(IScale, (connectivity * IScale) \div 10)
connectivity_score(connectivity) == Min(IScale, (connectivity * IScale) \div 10)
\* access_score = min(1.0, math.log10(access_count + 1) / 3.0)
access_score(access_count) == Min(IScale, Log10(access_count + 1) \div 3)
\* user_score = user_imp if user_imp is not None else 0.5
user_score(user_imp) == IF user_imp # None THEN user_imp[1] ELSE DefaultImportance

\* importance = 0.3 * connectivity_score + 0.3 * access_score + 0.4 * user_score
ImportanceOf(connectivity, access_count, user_imp) ==
    (3 * connectivity_score(connectivity) + 3 * access_score(access_count)
        + 4 * user_score(user_imp)) \div 10

\* query_recalculate_importance: no row, nothing written; otherwise
\* UPDATE type::record("entity", $id) SET importance = $importance
query_recalculate_importance(ent, rel, id) ==
    IF query_get_entity(ent, id) = <<>>
    THEN ent
    ELSE LET e == query_get_entity(ent, id)[1]
         IN  [ent EXCEPT ![id].importance =
                ImportanceOf(query_get_entity_connectivity(rel, id),
                             e.access_count, e.user_importance)]

\* Recalculation of a set of ids, one after the other (each reads only its
\* own row and the relates table, so the order does not matter).
RECURSIVE RecalculateAll(_, _, _)
RecalculateAll(ent, rel, ids) ==
    IF ids = {} THEN ent
    ELSE LET id == CHOOSE x \in ids : TRUE
         IN  RecalculateAll(query_recalculate_importance(ent, rel, id), rel, ids \ {id})

\* SELECT id FROM entity {context_filter}, with
\* context_filter = "WHERE context = $ctx" if context else ""
BatchSelected(ent, context) ==
    {id \in Stored(ent) : context = None \/ ent[id].context = context}

\* query_batch_recalculate_importance(context): one recalculation per
\* selected row.
query_batch_recalculate_importance(ent, rel, context) ==
    RecalculateAll(ent, rel,
                   { extract_record_id(RecordIdStr(id)) : id \in BatchSelected(ent, context) })


\* ------------------------------------------------------------ call frames
\* No reflect call is running.
ReflIdle ==
    [ pc |-> "idle", find_similar |-> FALSE, auto_merge |-> FALSE,
      threshold |-> 0, recalc |-> FALSE,
      todo |-> <<>>, cur |-> NoValue, similar |-> {},
      seen_pairs |-> {}, deleted_ids |-> {},
      decayed |-> 0, similar_pairs |-> <<>>, merged |-> 0,
      importance_recalculated |-> 0, context |-> None ]

\* No check_contradictions call is running.
CcIdle ==
    [ pc |-> "idle", entities |-> <<>>, i |-> 0, j |-> 0,
      sims |-> <<>>, nli_calls |-> <<>>, contradictions |-> <<>>,
      target |-> None, similar |-> {} ]

\* embedding.py: _embedder = None, _nli_model = None,
\* _loading_lock = threading.Lock(); no thread is inside a getter.
\* `built`: how many instances of each model were constructed.
ModelNames == {"_embedder", "_nli_model"}
Threads == {"preload", "t1", "t2"}
ThreadIdle == [pc |-> "idle", fn |-> NoValue, todo |-> <<>>, new |-> None, got |-> <<>>]
LoaderIdle ==
    [ model |-> [g \in ModelNames |-> None],
      _loading_lock |-> None,
      built |-> [g \in ModelNames |-> 0],
      th |-> [t \in Threads |-> ThreadIdle] ]

\* Tool calls are served one at a time: a call starts when none is running.
Quiescent == refl.pc = "idle" /\ cc.pc = "idle"

\* The call that started or returned last: the tool, "running" until it
\* returns, then "ok" or "error" (a ToolError reached the caller), the ids
\* it was about, the day and its result.
Outcome(op, status, ids, res) ==
    [ op |-> op, status |-> status, ids |-> ids, at |-> now, res |-> res ]

\* Was the call that returned last a completed auto-merge pass of reflect:
\* its threshold if so.
LastMergePass ==
    IF last.op = "reflect" /\ last.status = "ok"
    THEN IF last.res.find_similar /\ last.res.auto_merge THEN <<last.res.threshold>> ELSE None
    ELSE None

\* The call of a tool has started and has not returned (history: prev_pass,
\* the auto-merge pass that returned right before it started).
Running(op) ==
    Outcome(op, "running", {},
            [at |-> "begin", deleted_ids |-> {}, pairs_found |-> {},
             prev_pass |-> LastMergePass])

\* This step is the return of a call of tool `op`.
Returns(op) == last' # last /\ last'.op = op /\ last'.status # "running"

\* The history counter of the ids in `ids` starts again from 0.
ResetPasses(ids) == [id \in DOMAIN npass |-> IF id \in ids THEN 0 ELSE npass[id]]

\* ------------------------------------------------------------------- Init
EmptyTable == [id \in Ids |-> NoEntity]

Init ==
    /\ entity = EmptyTable
    /\ relates = {}
    /\ now = 0
    /\ npass = [id \in Ids |-> 0]
    /\ refl = ReflIdle
    /\ cc = CcIdle
    /\ last = [op |-> "none", status |-> "ok", ids |-> {}, at |-> 0, res |-> NoValue]
    /\ parked = ReflIdle
    /\ loader = LoaderIdle

\* Time passes: d ticks.
Advance(d) ==
    /\ Quiescent
    /\ now + d <= MaxTime * Day
    /\ now' = now + d
    /\ UNCHANGED <<entity, relates, npass, refl, cc, last, parked, loader>>

\* A day passes.
Tick == Advance(Day)

\* ------------------------------------------------- search.py: get_entity
\* EntityResult(id=str(e['id']), ..., decay_weight=e.get('decay_weight'),
\* importance=e.get('importance')) of a row as the query returned it
EntityResult(ent, id) ==
    [ id |-> RecordIdStr(id), content |-> ent[id].content,
      decay_weight |-> ent[id].decay_weight, importance |-> ent[id].importance ]

\* not text.strip() for the texts of the model (contents, relation types,
\* queries): the empty text and the text of one space are blank.
\* (mutant) only the empty text is blank
IsBlankTextMutantEmptyOnly(t) == t = ""
IsBlankText(t) == t \in {"", " "}

\* not entity_id.strip(): the id is empty or holds nothing but spaces
IsBlank(s) == \A k \in 1..Len(s) : s[k] = " "

get_entity(entity_id) ==
    /\ Quiescent
    /\ IF IsBlank(entity_id)
       THEN /\ last' = Outcome("get_entity", "error", {}, NoValue)
            /\ UNCHANGED <<entity, npass>>
       ELSE LET results == query_get_entity(entity, entity_id)
            IN  IF results # <<>>
                THEN /\ results[1].access_count < MaxCount
                     /\ entity' = query_update_access(entity, entity_id, now)
                     /\ npass' = ResetPasses({entity_id})
                     /\ last' = Outcome("get_entity", "ok", {entity_id},
                                        EntityResult(entity, entity_id))
                ELSE /\ last' = Outcome("get_entity", "ok", {}, NoValue)
                     /\ UNCHANGED <<entity, npass>>
    /\ UNCHANGED <<relates, now, refl, cc, parked, loader>>

\* ----------------------------------------------------- search.py: search
\* (mutant) the access loop stopping after its first row
TrackAccessMutantFirstOnly(ent, hits, t) ==
    IF hits = {} THEN ent
    ELSE LET r == CHOOSE x \in hits : TRUE
         IN  query_update_access(ent, extract_record_id(RecordIdStr(r)), t)

\* for r in entities: await query_update_access(ctx, extract_record_id(r['id']))
RECURSIVE TrackAccess(_, _, _)
TrackAccess(ent, hits, t) ==
    IF hits = {} THEN ent
    ELSE LET r == CHOOSE x \in hits : TRUE
         IN  TrackAccess(query_update_access(ent, extract_record_id(RecordIdStr(r)), t),
                         hits \ {r}, t)

\* search(query, limit): `hits` is what query_hybrid_search returns, at most
\* `limit` rows of the entity table.
search(query, limit, hits) ==
    /\ Quiescent
    /\ IF IsBlankText(query) \/ limit < 1 \/ limit > 100
       THEN /\ hits = {}
            /\ last' = Outcome("search", "error", {}, NoValue)
            /\ UNCHANGED <<entity, npass>>
       ELSE /\ hits \subseteq Stored(entity)
            /\ Cardinality(hits) <= limit
            /\ \A r \in hits : entity[r].access_count < MaxCount
            /\ entity' = TrackAccess(entity, hits, now)
            /\ npass' = ResetPasses(hits)
            /\ last' = Outcome("search", "ok", hits, {EntityResult(entity, r) : r \in hits})
    /\ UNCHANGED <<relates, now, refl, cc, parked, loader>>


\* -------------------------------------------------- persist.py: remember
\* A request is a dict of any shape.  A record of the model has the keys
\* the dict has; a value of the wrong Python type is written under its own
\* key: labels_str is a 'labels' that is a string, weight_str a 'weight'
\* that is a string.
\* validate_entity: id and content are there and are non-empty strings, a
\* 'labels' is a list, and a confidence, when given, is a number in [0, 1].
\* An 'importance' is not looked at.
\* (mutant) the range of the confidence is not looked at
ValidateEntityMutantNoRange(e) ==
    /\ "id" \in DOMAIN e
    /\ "content" \in DOMAIN e
    /\ ~IsBlank(e.id)
    /\ ~IsBlankText(e.content)
    /\ "labels_str" \notin DOMAIN e
validate_entity(e) ==
    /\ "id" \in DOMAIN e
    /\ "content" \in DOMAIN e
    /\ ~IsBlank(e.id)
    /\ ~IsBlankText(e.content)
    /\ "labels_str" \notin DOMAIN e
    /\ e.confidence # None => (0 <= e.confidence[1] /\ e.confidence[1] <= IScale)

\* validate_relation: from, to and type are there and are non-empty
\* strings, and a weight, when given, is a number.
validate_relation(r) ==
    /\ \A field \in {"from", "to", "type"} : field \in DOMAIN r
    /\ ~IsBlank(r.from)
    /\ ~IsBlank(r.to)
    /\ ~IsBlankText(r.type)
    /\ "weight_str" \notin DOMAIN r

SeqRange(q) == {q[k] : k \in 1..Len(q)}

\* The entity loop of remember after its first n iterations: one
\* query_upsert_entity per entity, in list order, with
\* confidence = entity.get('confidence', 1.0) and
\* user_importance = entity.get('importance'), and with
\* context = entity.get('context', default_context), the default being
\* that of a call with no context and no context in the environment.
RECURSIVE UpsertPrefix(_, _, _, _)
UpsertPrefix(ent, ents, n, t) ==
    IF n = 0 THEN ent
    ELSE LET e == ents[n]
             up == query_upsert_entity(UpsertPrefix(ent, ents, n - 1, t),
                                       e.id, e.content, embed(e.content),
                                       IF e.confidence # None THEN e.confidence[1] ELSE IScale,
                                       e.importance, t)
         IN  IF "context" \in DOMAIN e THEN [up EXCEPT ![e.id].context = e.context] ELSE up

\* The relation loop of remember after its first n iterations.
RECURSIVE RelatePrefix(_, _, _)
RelatePrefix(rel, rels, n) ==
    IF n = 0 THEN rel
    ELSE LET r == rels[n]
         IN  query_create_relation(RelatePrefix(rel, rels, n - 1),
                                   r.from, r.type, r.to, r.weight)

\* How many upserts and how many RELATEs of a remember call complete when
\* its failAt-th store call raises (0: none raises).  The store calls are
\* the upserts in list order, then the RELATEs in list order.
\* (mutant) the upserts are undone when a later call raises
UpsertsDoneMutantRollback(ents, rels, failAt) ==
    IF failAt = 0 THEN Len(ents) ELSE 0
UpsertsDone(ents, rels, failAt) ==
    IF failAt = 0 THEN Len(ents) ELSE Min(failAt - 1, Len(ents))
RelatesDone(ents, rels, failAt) ==
    IF failAt = 0 THEN Len(rels) ELSE Max(0, failAt - 1 - Len(ents))

\* entities_to_recalc: the ids upserted and the endpoints of the relations
entities_to_recalc(ents, rels) ==
    {e.id : e \in SeqRange(ents)} \cup {r.from : r \in SeqRange(rels)}
                                  \cup {r.to : r \in SeqRange(rels)}

\* History: the items of a list whose store calls are the calls number
\* offset + 1, offset + 2, ... of the handler that returned before call
\* number failAt raised (all of them when failAt = 0: no call raised).
CallsBefore(items, offset, failAt) ==
    {items[n] : n \in {m \in 1..Len(items) : failAt = 0 \/ offset + m < failAt}}

\* remember(entities, relations).  Everything is validated first; then the
\* upserts, the RELATEs and the importance recalculation follow with no
\* transaction around them: an exception of a store call leaves the loop
\* and the handler where it is raised.
remember(ents, rels, failAt) ==
    /\ Quiescent
    /\ failAt \in 0..(Len(ents) + Len(rels))
    /\ LET ids == {e.id : e \in SeqRange(ents)}
       IN  IF ~(\A e \in SeqRange(ents) : validate_entity(e))
              \/ ~(\A r \in SeqRange(rels) : validate_relation(r))
           THEN /\ failAt = 0
                /\ last' = Outcome("remember", "error", {},
                                   [failAt |-> 0, upserted |-> {}, related |-> {},
                                    rejected |-> [entities |-> ents, relations |-> rels]])
                /\ UNCHANGED <<entity, relates, npass>>
           ELSE LET upserted == UpsertPrefix(entity, ents, UpsertsDone(ents, rels, failAt), now)
                    related == RelatePrefix(relates, rels, RelatesDone(ents, rels, failAt))
                IN  /\ entity' = IF failAt = 0
                                 THEN RecalculateAll(upserted, related,
                                                     entities_to_recalc(ents, rels))
                                 ELSE upserted
                    /\ relates' = related
                    /\ npass' = ResetPasses(Stored(upserted) \ Stored(entity))
                    /\ last' = Outcome("remember",
                                       IF failAt = 0 THEN "ok" ELSE "error", ids,
                                       [failAt |-> failAt,
                                        upserted |-> CallsBefore(ents, 0, failAt),
                                        related |-> CallsBefore(rels, Len(ents), failAt)])
    /\ UNCHANGED <<now, refl, cc, parked, loader>>

\* ---------------------------------------------------- persist.py: forget
\* query_delete_entity
forget(entity_id) ==
    /\ Quiescent
    /\ IF IsBlank(entity_id)
       THEN /\ last' = Outcome("forget", "error", {}, NoValue)
            /\ UNCHANGED <<entity, relates, npass>>
       ELSE /\ entity' = DeleteRow(entity, entity_id)
            /\ relates' = DeleteEdges(relates, entity_id)
            /\ npass' = ResetPasses({entity_id})
            /\ last' = Outcome("forget", "ok", {entity_id},
                               [existed |-> query_get_entity(entity, entity_id) # <<>>])
    /\ UNCHANGED <<now, refl, cc, parked, loader>>


\* ------------------------------------------------ maintenance.py: reflect
\* SELECT id, content, embedding, access_count, accessed FROM entity:
\* one row of the result (ids as the client prints them, "entity:<id>")
SnapshotRow(ent, id) ==
    [ id |-> RecordIdStr(id), emb |-> ent[id].emb,
      access_count |-> ent[id].access_count, accessed |-> ent[id].accessed ]

\* The sequences that list every member of S once.
Orders(S) ==
    {q \in [1..Cardinality(S) -> S] : \A a, b \in 1..Cardinality(S) : q[a] = q[b] => a = b}

\* embedding <|10,40|> $emb: the (at most) KnnLimit rows nearest to emb
\* (rows at the same distance in the order of their ids)
Nearest(ent, emb) ==
    LET Before(a, b) ==
            \/ Cosine(ent[a].emb, emb) > Cosine(ent[b].emb, emb)
            \/ /\ Cosine(ent[a].emb, emb) = Cosine(ent[b].emb, emb)
               /\ StrLess(RecordIdStr(a), RecordIdStr(b))
    IN  {x \in Stored(ent) :
            Cardinality({a \in Stored(ent) : Before(a, x)}) < KnnLimit}

\* query_similar_by_embedding(emb, exclude_id):
\*   SELECT id, content, access_count, accessed, cosine(embedding, $emb) AS sim
\*   FROM entity WHERE embedding <|10,40|> $emb AND id != $exclude_rec
\* with exclude_rec = RecordID('entity', _extract_id(exclude_id))
query_similar_by_embedding(ent, emb, exclude_id) ==
    { [ id |-> RecordIdStr(id), access_count |-> ent[id].access_count,
        accessed |-> ent[id].accessed, sim |-> Cosine(ent[id].emb, emb) ] :
      id \in {x \in Nearest(ent, emb) : x # extract_record_id(exclude_id)} }

\* pair_key = (id1, id2) if id1 < id2 else (id2, id1)
\* (mutant) the key keeps the order the two ids were met in
PairKeyMutantAsGiven(id1, id2) == <<id1, id2>>
pair_key(id1, id2) == IF StrLess(id1, id2) THEN <<id1, id2>> ELSE <<id2, id1>>

\* The row auto-merge deletes: the scanned entity when the candidate has
\* the higher access_count or, on equal counts, the later accessed time;
\* the candidate otherwise.
to_delete(e, c) ==
    IF c.access_count > e.access_count
       \/ (c.access_count = e.access_count /\ c.accessed > e.accessed)
    THEN e.id
    ELSE c.id

\* Does the inner loop body do anything for candidate c: it is not in
\* deleted_ids, it reaches the threshold, and its pair is new.
IsNewPair(f, c) ==
    /\ c.id \notin f.deleted_ids
    /\ c.sim >= f.threshold
    /\ pair_key(f.cur.id, c.id) \notin f.seen_pairs

\* reflect up to its first await inside the scan: the argument checks and
\* the decay pass.
\* cutoff = datetime.now() - timedelta(days=decay_days), sent to the store
\* as cutoff.isoformat() + "Z": datetime.now() is the naive local time of
\* the host, which the "Z" labels as UTC, while the store's time::now()
\* (the `accessed` of the rows) is UTC.  `utc_offset`: the offset of the
\* host's time zone from UTC, in ticks.
ReflectCall(utc_offset, context, apply_decay, decay_days, find_similar, similarity_threshold, auto_merge, recalculate_importance) ==
    /\ Quiescent
    /\ IF decay_days < 1 \/ similarity_threshold < 0 \/ similarity_threshold > SimScale
       THEN /\ last' = Outcome("reflect", "error", {},
                               [at |-> "args", deleted_ids |-> {}, pairs_found |-> {}])
            /\ UNCHANGED <<entity, npass, refl>>
       ELSE LET cutoff == (now + utc_offset) - decay_days * Day
                old == {id \in Stored(entity) : entity[id].accessed < cutoff}
            IN  /\ apply_decay => \A id \in old : npass[id] < MaxPasses
                /\ entity' = IF apply_decay THEN query_apply_decay(entity, cutoff) ELSE entity
                /\ npass' = IF apply_decay
                            THEN [id \in DOMAIN npass |->
                                    IF id \in old THEN npass[id] + 1 ELSE npass[id]]
                            ELSE npass
                /\ refl' = [ReflIdle EXCEPT
                              !.pc = IF find_similar THEN "fetch"
                                     ELSE IF recalculate_importance THEN "recalc"
                                     ELSE "return",
                              !.find_similar = find_similar,
                              !.auto_merge = auto_merge,
                              !.threshold = similarity_threshold,
                              !.recalc = recalculate_importance,
                              !.context = context,
                              !.decayed = IF apply_decay
                                          THEN Cardinality(DecaySelected(entity, cutoff))
                                          ELSE 0]
                /\ last' = Running("reflect")
    /\ UNCHANGED <<relates, now, cc, parked, loader>>

\* reflect(..., context=<context>) on a host whose local time is UTC
ReflectStart(context, apply_decay, decay_days, find_similar, similarity_threshold, auto_merge, recalculate_importance) ==
    ReflectCall(0, context, apply_decay, decay_days, find_similar, similarity_threshold,
                auto_merge, recalculate_importance)

\* reflect(...) called with no context
ReflectBegin(apply_decay, decay_days, find_similar, similarity_threshold, auto_merge, recalculate_importance) ==
    ReflectStart(None, apply_decay, decay_days, find_similar, similarity_threshold,
                 auto_merge, recalculate_importance)

\* entities = await query_all_entities_with_embedding(ctx), in the order
\* the store returns them.
\* (mutant) only the row the store returns first is scanned
ReflectFetchMutantFirstRow(order) ==
    /\ refl.pc = "fetch"
    /\ order \in Orders(Stored(entity))
    /\ refl' = [refl EXCEPT !.pc = "scan",
                            !.todo = [k \in 1..Min(1, Len(order)) |-> SnapshotRow(entity, order[k])]]
    /\ UNCHANGED <<entity, relates, now, npass, cc, last, parked, loader>>
ReflectFetch(order) ==
    /\ refl.pc = "fetch"
    /\ order \in Orders(Stored(entity))
    /\ refl' = [refl EXCEPT !.pc = "scan",
                            !.todo = [k \in 1..Len(order) |-> SnapshotRow(entity, order[k])]]
    /\ UNCHANGED <<entity, relates, now, npass, cc, last, parked, loader>>

\* One turn of `for entity in entities`, up to the inner loop: skip a row in
\* deleted_ids, otherwise fetch its neighbours.  After the last row the
\* scan is over.
\* (mutant) the importance pass runs when the scan starts on its first row,
\* not after the scan
ReflectNextEntityMutantRecalcFirst ==
    /\ refl.pc = "scan"
    /\ IF refl.todo = <<>>
       THEN /\ refl' = [refl EXCEPT !.pc = "return", !.cur = NoValue]
            /\ UNCHANGED entity
       ELSE LET e == Head(refl.todo)
                similar == query_similar_by_embedding(entity, e.emb, e.id)
                first == refl.recalc /\ refl.importance_recalculated = 0
            IN  /\ entity' = IF first
                              THEN query_batch_recalculate_importance(entity, relates,
                                                                      refl.context)
                              ELSE entity
                /\ IF e.id \in refl.deleted_ids \/ similar = {}
                   THEN refl' = [refl EXCEPT !.todo = Tail(@), !.cur = NoValue,
                                   !.importance_recalculated =
                                       IF first THEN Cardinality(Stored(entity)) ELSE @]
                   ELSE refl' = [refl EXCEPT !.pc = "cand", !.todo = Tail(@),
                                   !.cur = e, !.similar = similar,
                                   !.importance_recalculated =
                                       IF first THEN Cardinality(Stored(entity)) ELSE @]
    /\ UNCHANGED <<relates, now, npass, cc, last, parked, loader>>
ReflectNextEntity ==
    /\ refl.pc = "scan"
    /\ IF refl.todo = <<>>
       THEN refl' = [refl EXCEPT !.pc = IF refl.recalc THEN "recalc" ELSE "return",
                                 !.cur = NoValue]
       ELSE LET e == Head(refl.todo)
                similar == query_similar_by_embedding(entity, e.emb, e.id)
            IN  IF e.id \in refl.deleted_ids \/ similar = {}
                THEN refl' = [refl EXCEPT !.todo = Tail(@), !.cur = NoValue]
                ELSE refl' = [refl EXCEPT !.pc = "cand", !.todo = Tail(@),
                                          !.cur = e, !.similar = similar]
    /\ UNCHANGED <<entity, relates, now, npass, cc, last, parked, loader>>

\* One turn of `for candidate in similar` for candidate c.
\* (mutant) a new pair is merged whether or not auto_merge is set
ReflectCandidateMutantAlwaysMerges(c) ==
    /\ refl.pc = "cand"
    /\ c \in refl.similar
    /\ LET rest == refl.similar \ {c}
           next == [refl EXCEPT !.similar = rest,
                                !.pc = IF rest = {} THEN "scan" ELSE "cand"]
           loser == to_delete(refl.cur, c)
       IN  IF ~IsNewPair(refl, c)
           THEN /\ refl' = next
                /\ UNCHANGED <<entity, relates, npass>>
           ELSE /\ entity' = DeleteRow(entity, extract_record_id(loser))
                /\ relates' = DeleteEdges(relates, extract_record_id(loser))
                /\ npass' = ResetPasses({extract_record_id(loser)})
                /\ refl' = [next EXCEPT
                              !.seen_pairs = @ \cup {pair_key(refl.cur.id, c.id)},
                              !.deleted_ids = @ \cup {loser},
                              !.merged = @ + 1]
    /\ UNCHANGED <<now, cc, last, parked, loader>>
ReflectCandidate(c) ==
    /\ refl.pc = "cand"
    /\ c \in refl.similar
    /\ LET rest == refl.similar \ {c}
           next == [refl EXCEPT !.similar = rest,
                                !.pc = IF rest = {} THEN "scan" ELSE "cand"]
           loser == to_delete(refl.cur, c)
       IN  IF ~IsNewPair(refl, c)
           THEN /\ refl' = next
                /\ UNCHANGED <<entity, relates, npass>>
           ELSE IF refl.auto_merge
           THEN /\ entity' = DeleteRow(entity, extract_record_id(loser))
                /\ relates' = DeleteEdges(relates, extract_record_id(loser))
                /\ npass' = ResetPasses({extract_record_id(loser)})
                /\ refl' = [next EXCEPT
                              !.seen_pairs = @ \cup {pair_key(refl.cur.id, c.id)},
                              !.deleted_ids = @ \cup {loser},
                              !.merged = @ + 1]
           ELSE /\ refl' = [next EXCEPT
                              !.seen_pairs = @ \cup {pair_key(refl.cur.id, c.id)},
                              !.similar_pairs = Append(@,
                                  [entity1 |-> refl.cur.id, entity2 |-> c.id,
                                   similarity |-> c.sim])]
                /\ UNCHANGED <<entity, relates, npass>>
    /\ UNCHANGED <<now, cc, last, parked, loader>>

\* recalc_count = await query_batch_recalculate_importance(ctx, context)
ReflectRecalc ==
    /\ refl.pc = "recalc"
    /\ entity' = query_batch_recalculate_importance(entity, relates, refl.context)
    /\ refl' = [refl EXCEPT !.pc = "return",
                            !.importance_recalculated =
                                Cardinality(BatchSelected(entity, refl.context))]
    /\ UNCHANGED <<relates, now, npass, cc, last, parked, loader>>

\* return result
ReflectReturn ==
    /\ refl.pc = "return"
    /\ last' = Outcome("reflect", "ok", {},
                       [ decayed |-> refl.decayed,
                         similar_pairs |-> refl.similar_pairs,
                         merged |-> refl.merged,
                         importance_recalculated |-> refl.importance_recalculated,
                         find_similar |-> refl.find_similar,
                         auto_merge |-> refl.auto_merge,
                         threshold |-> refl.threshold,
                         seen_pairs |-> refl.seen_pairs,
                         deleted_ids |-> refl.deleted_ids ])
    /\ refl' = ReflIdle
    /\ UNCHANGED <<entity, relates, now, npass, cc, parked, loader>>

\* The store call reflect is about to make raises (run_query turns every
\* failure into a ToolError).  Nothing in reflect catches it: the call ends
\* there, and no ReflectResult is returned.
ReflectStoreCallNext ==
    \/ refl.pc \in {"fetch", "recalc"}
    \/ refl.pc = "scan" /\ refl.todo # <<>> /\ Head(refl.todo).id \notin refl.deleted_ids
    \/ refl.pc = "cand" /\ refl.auto_merge /\ \E c \in refl.similar : IsNewPair(refl, c)

\* (mutant) a failing neighbour query is caught: the scan passes over the
\* entity and goes on with the next one
ReflectRaiseMutantSkip ==
    /\ ReflectStoreCallNext
    /\ IF refl.pc = "scan"
       THEN /\ refl' = [refl EXCEPT !.todo = Tail(@), !.cur = NoValue]
            /\ UNCHANGED last
       ELSE /\ last' = Outcome("reflect", "error", {},
                               [ at |-> refl.pc, deleted_ids |-> refl.deleted_ids,
                                 pairs_found |-> refl.seen_pairs ])
            /\ refl' = ReflIdle
    /\ UNCHANGED <<entity, relates, now, npass, cc, parked, loader>>

ReflectRaise ==
    /\ ReflectStoreCallNext
    /\ last' = Outcome("reflect", "error", {},
                       [ at |-> refl.pc, deleted_ids |-> refl.deleted_ids,
                         pairs_found |-> refl.seen_pairs ])
    /\ refl' = ReflIdle
    /\ UNCHANGED <<entity, relates, now, npass, cc, parked, loader>>

\* ------------------------- maintenance.py: check_contradictions_tool (bulk)
\* SELECT id, content, embedding FROM entity: one row of the result
LabelRow(ent, id) ==
    [ id |-> RecordIdStr(id), content |-> ent[id].content, emb |-> ent[id].emb ]

\* query_vector_similarity: RETURN { sim: cosine($emb1, $emb2) }, one row
query_vector_similarity(emb1, emb2) == << [sim |-> Cosine(emb1, emb2)] >>

\* NLI_LABELS = ['contradiction', 'entailment', 'neutral']
NLI_LABELS == <<"contradiction", "entailment", "neutral">>

\* What nli_model.predict gives for a pair of texts: one score per class
\* (in 1/SimScale).  The rows of the model: two with contradiction on top,
\* one with entailment, one with neutral.
ScoreRows == { <<900, 50, 50>>, <<600, 300, 100>>, <<50, 900, 50>>, <<300, 100, 600>> }

\* scores_row.argmax(): the first index of the highest score
ArgMax(row) ==
    CHOOSE k \in 1..Len(row) :
        \A m \in 1..Len(row) : row[k] > row[m] \/ (row[k] = row[m] /\ k <= m)

\* check_contradiction: {'label': NLI_LABELS[label_idx],
\*                       'scores': {NLI_LABELS[i]: scores_row[i] for i in range(3)}}
check_contradiction(scores_row) ==
    [ label |-> NLI_LABELS[ArgMax(scores_row)],
      scores |-> [ contradiction |-> scores_row[1], entailment |-> scores_row[2],
                   neutral |-> scores_row[3] ] ]

\* What check_contradiction can answer.
NliAnswers == { check_contradiction(row) : row \in ScoreRows }

\* for i, e1 in enumerate(entities): for e2 in entities[i+1:]: the position
\* after (i, j) in a list of n rows; <<0, 0>> after the last pair.
NextPair(i, j, n) ==
    IF j < n THEN <<i, j + 1>>
    ELSE IF i + 2 <= n THEN <<i + 1, i + 2>>
    ELSE <<0, 0>>

\* check_contradictions_tool(entity_id=None, labels=None) up to its first
\* await of the store.
CcBegin ==
    /\ Quiescent
    /\ cc' = [CcIdle EXCEPT !.pc = "fetch"]
    /\ last' = Running("check_contradictions")
    /\ UNCHANGED <<entity, relates, now, npass, refl, parked, loader>>

\* entities = await query_entities_by_labels(ctx, labels) with no label
\* filter: every row, in the order the store returns them.
CcFetch(order) ==
    /\ cc.pc = "fetch"
    /\ order \in Orders(Stored(entity))
    /\ cc' = [cc EXCEPT
                !.pc = IF Len(order) >= 2 THEN "pair" ELSE "return",
                !.entities = [k \in 1..Len(order) |-> LabelRow(entity, order[k])],
                !.i = IF Len(order) >= 2 THEN 1 ELSE 0,
                !.j = IF Len(order) >= 2 THEN 2 ELSE 0]
    /\ UNCHANGED <<entity, relates, now, npass, refl, last, parked, loader>>

\* if sim > 0.5
\* (mutant) the floor itself passes
IsRelatedMutantInclusive(sim) == sim >= ContraFloor
IsRelated(sim) == sim > ContraFloor

\* One turn of the inner loop, for the pair at (i, j).  `empty`: the
\* similarity query came back with no row; `nli`: what the classifier
\* answers if it is asked.
\* (mutant) every classified pair is reported, whatever its label
CcPairMutantReportsAll(empty, nli) ==
    /\ cc.pc = "pair"
    /\ LET e1 == cc.entities[cc.i]
           e2 == cc.entities[cc.j]
           sim_result == IF empty THEN <<>> ELSE query_vector_similarity(e1.emb, e2.emb)
           sim == IF sim_result # <<>> THEN sim_result[1].sim ELSE 0
           nxt == NextPair(cc.i, cc.j, Len(cc.entities))
           moved == [cc EXCEPT !.i = nxt[1], !.j = nxt[2],
                               !.pc = IF nxt = <<0, 0>> THEN "return" ELSE "pair",
                               !.sims = Append(@, [entity1 |-> e1.id, entity2 |-> e2.id,
                                                   sim |-> sim])]
       IN  IF IsRelated(sim)
           THEN cc' = [moved EXCEPT
                         !.nli_calls = Append(@, [entity1 |-> e1.id, entity2 |-> e2.id,
                                                  sim |-> sim, nli |-> nli]),
                         !.contradictions =
                             Append(@, [entity1 |-> e1.id, entity2 |-> e2.id,
                                        confidence |-> nli.scores.contradiction])]
           ELSE /\ nli.label = "neutral"
                /\ cc' = moved
    /\ UNCHANGED <<entity, relates, now, npass, refl, last, parked, loader>>
CcPair(empty, nli) ==
    /\ cc.pc = "pair"
    /\ LET e1 == cc.entities[cc.i]
           e2 == cc.entities[cc.j]
           sim_result == IF empty THEN <<>> ELSE query_vector_similarity(e1.emb, e2.emb)
           sim == IF sim_result # <<>> THEN sim_result[1].sim ELSE 0
           nxt == NextPair(cc.i, cc.j, Len(cc.entities))
           moved == [cc EXCEPT !.i = nxt[1], !.j = nxt[2],
                               !.pc = IF nxt = <<0, 0>> THEN "return" ELSE "pair",
                               !.sims = Append(@, [entity1 |-> e1.id, entity2 |-> e2.id,
                                                   sim |-> sim])]
       IN  IF IsRelated(sim)
           THEN cc' = [moved EXCEPT
                         !.nli_calls = Append(@, [entity1 |-> e1.id, entity2 |-> e2.id,
                                                  sim |-> sim, nli |-> nli]),
                         !.contradictions =
                             IF nli.label = "contradiction"
                             THEN Append(@, [entity1 |-> e1.id, entity2 |-> e2.id,
                                             confidence |-> nli.scores.contradiction])
                             ELSE @]
           ELSE /\ nli.label = "neutral"
                /\ cc' = moved
    /\ UNCHANGED <<entity, relates, now, npass, refl, last, parked, loader>>

\* --------------- maintenance.py: check_contradictions_tool (single target)
\* query_entity_with_embedding: SELECT * FROM type::record("entity", $id)
query_entity_with_embedding(ent, entity_id) ==
    IF entity_id \in Stored(ent) THEN << LabelRow(ent, entity_id) >> ELSE <<>>

\* query_similar_for_contradiction(embedding, entity_id):
\*   SELECT id, content FROM entity
\*   WHERE embedding <|10,40|> $emb AND id != $exclude_rec
\* with exclude_rec = RecordID('entity', entity_id)
\* (mutant) the row of the same id is not excluded
QuerySimilarForContradictionMutantNoExclude(ent, emb, entity_id) ==
    { [ id |-> RecordIdStr(id), content |-> ent[id].content ] : id \in Nearest(ent, emb) }
query_similar_for_contradiction(ent, emb, entity_id) ==
    { [ id |-> RecordIdStr(id), content |-> ent[id].content ] :
      id \in {x \in Nearest(ent, emb) : x # entity_id} }

\* check_contradictions_tool(entity_id=<id>) up to its first await of the
\* store.
CcBeginTarget(entity_id) ==
    /\ Quiescent
    /\ entity_id # <<>>
    /\ cc' = [CcIdle EXCEPT !.pc = "target", !.target = <<entity_id>>]
    /\ last' = Running("check_contradictions")
    /\ UNCHANGED <<entity, relates, now, npass, refl, parked, loader>>

\* entity_result = await query_entity_with_embedding(ctx, entity_id)
\* entity = entity_result[0] if entity_result else None
CcTarget ==
    /\ cc.pc = "target"
    /\ LET entity_result == query_entity_with_embedding(entity, cc.target[1])
       IN  cc' = [cc EXCEPT !.entities = entity_result,
                            !.pc = IF entity_result # <<>> THEN "similar" ELSE "return"]
    /\ UNCHANGED <<entity, relates, now, npass, refl, last, parked, loader>>

\* similar = await query_similar_for_contradiction(ctx, entity['embedding'],
\*                                                 entity_id)
CcSimilar ==
    /\ cc.pc = "similar"
    /\ LET similar == query_similar_for_contradiction(entity, cc.entities[1].emb,
                                                      cc.target[1])
       IN  cc' = [cc EXCEPT !.similar = similar,
                            !.pc = IF similar # {} THEN "other" ELSE "return"]
    /\ UNCHANGED <<entity, relates, now, npass, refl, last, parked, loader>>

\* One turn of `for other in similar`; `nli`: what the classifier answers.
CcOther(other, nli) ==
    /\ cc.pc = "other"
    /\ other \in cc.similar
    /\ LET rest == cc.similar \ {other}
           call == [entity1 |-> cc.target[1], entity2 |-> other.id, nli |-> nli]
       IN  cc' = [cc EXCEPT
                    !.similar = rest,
                    !.pc = IF rest = {} THEN "return" ELSE "other",
                    !.nli_calls = Append(@, call),
                    !.contradictions =
                        IF nli.label = "contradiction"
                        THEN Append(@, [entity1 |-> cc.target[1], entity2 |-> other.id,
                                        confidence |-> nli.scores.contradiction])
                        ELSE @]
    /\ UNCHANGED <<entity, relates, now, npass, refl, last, parked, loader>>

\* return contradictions
CcReturn ==
    /\ cc.pc = "return"
    /\ last' = Outcome("check_contradictions", "ok", {},
                       [ contradictions |-> cc.contradictions,
                         nli_calls |-> cc.nli_calls, sims |-> cc.sims,
                         entities |-> cc.entities, target |-> cc.target ])
    /\ cc' = CcIdle
    /\ UNCHANGED <<entity, relates, now, npass, refl, parked, loader>>

\* The store call (the label query, the similarity of a pair) or the
\* classifier call raises: nothing in the tool catches it.
CcRaise ==
    /\ cc.pc \in {"fetch", "pair", "target", "similar", "other"}
    /\ last' = Outcome("check_contradictions", "error", {},
                       [ at |-> cc.pc, nli_calls |-> cc.nli_calls, sims |-> cc.sims ])
    /\ cc' = CcIdle
    /\ UNCHANGED <<entity, relates, now, npass, refl, parked, loader>>


\* ------------------------ persist.py: remember(detect_contradictions=True)
\* The rows of query_similar_for_contradiction as the list the loop
\* `for existing in similar` walks (the model lists them by id).
SimilarList(ent, emb, entity_id) ==
    LET rows == query_similar_for_contradiction(ent, emb, entity_id)
    IN  [ k \in 1..Cardinality(rows) |->
            CHOOSE r \in rows :
                Cardinality({o \in rows : StrLess(o.id, r.id)}) = k - 1 ]

\* The entity loop of remember(detect_contradictions=True) from its k-th
\* iteration on, as the list of the calls it makes: per entity the
\* similarity query, one check_contradiction per row of its result, then
\* the upsert.  `contra`: the (k, id) of the classifier calls that answer
\* 'contradiction'.
RECURSIVE DetectEvents(_, _, _, _, _)
DetectEvents(ent, ents, k, t, contra) ==
    IF k > Len(ents) THEN <<>>
    ELSE LET e == ents[k]
             similar == SimilarList(ent, embed(e.content), e.id)
             screen == [ kind |-> "screen", k |-> k, entity1 |-> e.id, entity2 |-> <<>>,
                         rows |-> similar, nli |-> NoValue ]
             calls == [ m \in 1..Len(similar) |->
                          [ kind |-> "nli", k |-> k, entity1 |-> e.id,
                            entity2 |-> similar[m].id, rows |-> <<>>,
                            nli |-> IF <<k, similar[m].id>> \in contra
                                    THEN check_contradiction(<<900, 50, 50>>)
                                    ELSE check_contradiction(<<300, 100, 600>>) ] ]
             upsert == [ kind |-> "upsert", k |-> k, entity1 |-> e.id, entity2 |-> <<>>,
                         rows |-> <<>>, nli |-> NoValue ]
         IN  <<screen>> \o calls \o <<upsert>>
                 \o DetectEvents(UpsertPrefix(ent, <<e>>, 1, t), ents, k + 1, t, contra)

\* result.contradictions after the calls of `events`: an entry is appended
\* after a classifier call whose label is 'contradiction'.
RECURSIVE CollectContradictions(_)
CollectContradictions(events) ==
    IF events = <<>> THEN <<>>
    ELSE LET ev == events[Len(events)]
             before == CollectContradictions(SubSeq(events, 1, Len(events) - 1))
         IN  IF ev.kind = "nli" /\ ev.nli.label = "contradiction"
             THEN Append(before, [entity1 |-> ev.entity1, entity2 |-> ev.entity2,
                                  confidence |-> ev.nli.scores.contradiction])
             ELSE before

IsUpsertEvent(ev) == ev.kind = "upsert"

\* remember(entities, detect_contradictions=True) with valid entities and
\* no relations.  `failAt`: the call of the entity loop that raises (0:
\* none); neither the similarity query nor the classifier call is inside a
\* try, and the upsert's except re-raises.
remember_detect(ents, contra, failAt) ==
    /\ Quiescent
    /\ \A e \in SeqRange(ents) : validate_entity(e)
    /\ \E all \in {DetectEvents(entity, ents, 1, now, contra)} :
       /\ failAt \in 0..Len(all)
       /\ \E done \in {IF failAt = 0 THEN all ELSE SubSeq(all, 1, failAt - 1)} :
          \E upserted \in {UpsertPrefix(entity, ents,
                                        Len(SelectSeq(done, IsUpsertEvent)), now)} :
           /\ entity' = IF failAt = 0
                        THEN RecalculateAll(upserted, relates, entities_to_recalc(ents, <<>>))
                        ELSE upserted
           /\ npass' = ResetPasses(Stored(upserted) \ Stored(entity))
           /\ last' = Outcome("remember", IF failAt = 0 THEN "ok" ELSE "error",
                              {e.id : e \in SeqRange(ents)},
                              [ failAt |-> failAt,
                                upserted |-> {ents[m] : m \in 1..Len(SelectSeq(done, IsUpsertEvent))},
                                related |-> {},
                                request |-> ents,
                                events |-> done,
                                contradictions |-> CollectContradictions(done) ])
    /\ UNCHANGED <<relates, now, refl, cc, parked, loader>>


\* --------------------------------------------- two tool calls interleaved
\* The tools are coroutines of one event loop: while a reflect call waits
\* at an await of the store, the loop runs another call.  The running
\* reflect call is suspended and the suspended one (or none) goes on.
Switch ==
    /\ cc.pc = "idle"
    /\ refl.pc # "idle" \/ parked.pc # "idle"
    /\ refl' = parked
    /\ parked' = refl
    /\ UNCHANGED <<entity, relates, now, npass, cc, last, loader>>

\* ------------------------------------------ embedding.py: the lazy getters
\* A thread enters the getters: the thread of preload_models runs
\* _get_embedder() and then _get_nli_model(); embed() runs _get_embedder()
\* and check_contradiction() runs _get_nli_model().
ThreadStart(t, calls) ==
    /\ loader.th[t].pc = "idle"
    /\ calls # <<>>
    /\ loader' = [loader EXCEPT !.th[t] = [@ EXCEPT !.pc = "check", !.fn = Head(calls),
                                                    !.todo = Tail(calls)]]
    /\ UNCHANGED <<entity, relates, now, npass, refl, cc, last, parked>>

\* if _embedder is None:        (the read outside the lock)
GetterCheck(t) ==
    /\ loader.th[t].pc = "check"
    /\ loader' = [loader EXCEPT !.th[t].pc =
                     IF loader.model[loader.th[t].fn] = None THEN "acquire" ELSE "return"]
    /\ UNCHANGED <<entity, relates, now, npass, refl, cc, last, parked>>

\* with _loading_lock:          (blocks while another thread holds it)
GetterAcquire(t) ==
    /\ loader.th[t].pc = "acquire"
    /\ loader._loading_lock = None
    /\ loader' = [loader EXCEPT !._loading_lock = <<t>>, !.th[t].pc = "recheck"]
    /\ UNCHANGED <<entity, relates, now, npass, refl, cc, last, parked>>

\* if _embedder is None:  # Double-check after acquiring lock
\* (when it is not None the with block ends here and releases the lock)
\* (mutant) no second check: the thread that got the lock constructs
GetterRecheckMutantNoSecondCheck(t) ==
    /\ loader.th[t].pc = "recheck"
    /\ loader' = [loader EXCEPT !.th[t].pc = "construct"]
    /\ UNCHANGED <<entity, relates, now, npass, refl, cc, last, parked>>
GetterRecheck(t) ==
    /\ loader.th[t].pc = "recheck"
    /\ loader' = IF loader.model[loader.th[t].fn] = None
                 THEN [loader EXCEPT !.th[t].pc = "construct"]
                 ELSE [loader EXCEPT !._loading_lock = None, !.th[t].pc = "return"]
    /\ UNCHANGED <<entity, relates, now, npass, refl, cc, last, parked>>

\* SentenceTransformer(...) / CrossEncoder(...): the constructor returns a
\* new instance, or raises (`ok` false): the exception leaves the with
\* block, which releases the lock, and ends the thread's call.
GetterConstruct(t, ok) ==
    /\ loader.th[t].pc = "construct"
    /\ LET fn == loader.th[t].fn
       IN  loader' = IF ok
                     THEN [loader EXCEPT
                             !.built[fn] = @ + 1,
                             !.th[t].new = << [name |-> fn, n |-> loader.built[fn] + 1] >>,
                             !.th[t].pc = "assign"]
                     ELSE [loader EXCEPT !._loading_lock = None, !.th[t].pc = "raised"]
    /\ UNCHANGED <<entity, relates, now, npass, refl, cc, last, parked>>

\* _embedder = <the new instance>
GetterAssign(t) ==
    /\ loader.th[t].pc = "assign"
    /\ loader' = [loader EXCEPT !.model[loader.th[t].fn] = loader.th[t].new,
                                !.th[t].pc = "release"]
    /\ UNCHANGED <<entity, relates, now, npass, refl, cc, last, parked>>

\* the end of the with block
GetterRelease(t) ==
    /\ loader.th[t].pc = "release"
    /\ loader' = [loader EXCEPT !._loading_lock = None, !.th[t].pc = "return"]
    /\ UNCHANGED <<entity, relates, now, npass, refl, cc, last, parked>>

\* return _embedder: the caller gets what the global holds now; the
\* preload thread goes on with the next getter.
GetterReturn(t) ==
    /\ loader.th[t].pc = "return"
    /\ LET th == loader.th[t]
           got == Append(th.got, [asked |-> th.fn, instance |-> loader.model[th.fn]])
       IN  loader' = [loader EXCEPT !.th[t] =
                        IF th.todo = <<>>
                        THEN [th EXCEPT !.pc = "done", !.got = got]
                        ELSE [th EXCEPT !.pc = "check", !.fn = Head(th.todo),
                                        !.todo = Tail(th.todo), !.got = got]]
    /\ UNCHANGED <<entity, relates, now, npass, refl, cc, last, parked>>


\* ================================================================= SpecDecay
\* Retrieval and decay: entities are stored, retrieved and aged.
PlainEntity(id) ==
    [id |-> id, content |-> "x", confidence |-> None, importance |-> None]

DecayDaysInputs == {0, 1, 2}
QueryInputs == {"", "q"}
LimitInputs == {0, 1, 2}

\* The ids SpecDecay stores: two are enough for rows of different age.
DecayIds == { <<"a">>, <<"c", ":", "d">> }

NextDecay ==
    \/ Tick
    \/ \E id \in DecayIds : remember(<<PlainEntity(id)>>, <<>>, 0)
    \/ \E id \in DecayIds \cup {<<>>} : get_entity(id)
    \/ \E q \in QueryInputs, limit \in LimitInputs, hits \in SUBSET DecayIds :
          search(q, limit, hits)
    \/ \E d \in DecayDaysInputs : ReflectBegin(TRUE, d, FALSE, 850, FALSE, FALSE)
    \/ ReflectReturn

SpecDecay == Init /\ [][NextDecay]_vars

\* =============================================================== SpecSearch
\* Retrieval over three rows; a row is aged at most ShortPasses times.
ShortPasses == 1

NextSearch ==
    \/ Tick
    \/ \E id \in Ids : remember(<<PlainEntity(id)>>, <<>>, 0)
    \/ \E id \in Ids \cup {<<>>} : get_entity(id)
    \/ \E q \in QueryInputs, limit \in LimitInputs, hits \in SUBSET Ids :
          search(q, limit, hits)
    \/ /\ \A id \in Ids : npass[id] < ShortPasses
       /\ \E d \in DecayDaysInputs : ReflectBegin(TRUE, d, FALSE, 850, FALSE, FALSE)
    \/ ReflectReturn

SpecSearch == Init /\ [][NextSearch]_vars

\* 0.9^n in units of 1/WScale
RECURSIVE PowDecay(_)
PowDecay(n) == IF n = 0 THEN WScale ELSE (PowDecay(n - 1) * 9) \div 10

\* C2: every stored entity has 0.1 <= decay_weight <= 1.0 in every
\* reachable state.
C2_DecayWeightInRange ==
    \A id \in Stored(entity) :
        /\ entity[id].decay_weight >= WScale \div 10
        /\ entity[id].decay_weight <= WScale

\* C3: an entity that has been through N decay passes since it was created
\* (or last retrieved) has decay_weight = max(0.1, 0.9^N).
C3_DecayClosedForm ==
    \A id \in Stored(entity) :
        entity[id].decay_weight = Max(WScale \div 10, PowDecay(npass[id]))

\* C4: the step in which search returns has given every row of its result,
\* and no other row, access_count + 1, decay_weight 1.0 and accessed = now,
\* and has changed nothing else.
C4_SearchTracksAccess ==
    [][ (Returns("search") /\ last'.status = "ok") =>
          \A id \in Ids :
              IF id \in last'.ids
              THEN /\ entity[id] # NoEntity /\ entity'[id] # NoEntity
                   /\ entity'[id].access_count = entity[id].access_count + 1
                   /\ entity'[id].decay_weight = WScale
                   /\ entity'[id].accessed = now
                   /\ entity'[id] = [entity[id] EXCEPT
                                       !.access_count = entity'[id].access_count,
                                       !.decay_weight = entity'[id].decay_weight,
                                       !.accessed = entity'[id].accessed]
              ELSE entity'[id] = entity[id] ]_vars

\* A search has returned two rows, one of them decayed when it was found
\* and one with a ':' in its id, and has left a third row out.
C4_Witness ==
    /\ last.op = "search" /\ last.status = "ok"
    /\ Cardinality(last.ids) = 2
    /\ <<"c", ":", "d">> \in last.ids
    /\ \E r \in last.res : r.decay_weight < WScale
    /\ \E id \in Stored(entity) : id \notin last.ids
    /\ \A id \in last.ids : entity[id].decay_weight = WScale


\* =========================================================== SpecSearchArgs
\* search called with arguments it has to refuse, over rows that were
\* stored, retrieved and aged.  `hits` is what the store would return if it
\* were asked.
RefusedSearchInputs ==
    { [query |-> "", limit |-> 1], [query |-> " ", limit |-> 1],
      [query |-> "q", limit |-> 0], [query |-> "q", limit |-> 0 - 1],
      [query |-> "q", limit |-> 101], [query |-> " ", limit |-> 101] }

NextSearchArgs ==
    \/ Tick
    \/ \E id \in Ids : remember(<<PlainEntity(id)>>, <<>>, 0)
    \/ \E id \in Ids : get_entity(id)
    \/ \E a \in RefusedSearchInputs, hits \in SUBSET Ids : search(a.query, a.limit, hits)

SpecSearchArgs == Init /\ [][NextSearchArgs]_vars

\* C18: a search call with a blank query or with a limit below 1 or above
\* 100 ends in an error, returns no row, and leaves every row of the entity
\* table (access_count, accessed, decay_weight and the rest) as it was.
C18_RefusedSearchTouchesNothing ==
    [][ Returns("search") =>
          /\ last'.status = "error"
          /\ last'.ids = {}
          /\ entity' = entity
          /\ npass' = npass ]_vars

\* A search has been refused while the table held a row that had been
\* retrieved before and a row that had not.
C18_Witness ==
    /\ last.op = "search" /\ last.status = "error"
    /\ \E id \in Stored(entity) : entity[id].access_count = 1
    /\ \E id \in Stored(entity) : entity[id].access_count = 0 /\ entity[id].accessed < now

\* ============================================================= SpecRemember
\* remember with lists of entities and relations, any of whose store calls
\* may raise.
\* The lists of at most MaxBatch members of S that name no member twice.
Lists(S) ==
    {q \in UNION {[1..n -> S] : n \in 0..MaxBatch} :
        \A a, b \in 1..Len(q) : q[a] = q[b] => a = b}

RememberIds == { <<"a">>, <<"b">> }
EntityInputs == {PlainEntity(id) : id \in RememberIds}
RelationInputs ==
    { [from |-> <<"a">>, to |-> <<"b">>, type |-> "r", weight |-> 1000],
      [from |-> <<"b">>, to |-> <<"a">>, type |-> "r", weight |-> 500],
      [from |-> <<"a">>, to |-> <<"b">>, type |-> "s", weight |-> 1000] }

EntityLists == Lists(EntityInputs)
RelationLists == Lists(RelationInputs)

NextRemember ==
    \E ents \in EntityLists, rels \in RelationLists :
        \E failAt \in 0..(Len(ents) + Len(rels)) : remember(ents, rels, failAt)

SpecRemember == Init /\ [][NextRemember]_vars

C10_OneRelationPerKey ==
    \A r1, r2 \in relates :
        ({r1.in, r1.out} = {r2.in, r2.out} /\ r1.rel_type = r2.rel_type) => r1 = r2

\* remember has been given an edge b -> a of type r (and its RELATE has
\* returned) while the table holds the edge a -> b of type r, beside an edge
\* of another type between the same two entities.
C10_Witness ==
    /\ last.op = "remember" /\ last.status = "ok"
    /\ \E r \in last.res.related, x \in relates :
          /\ x.in = r.to /\ x.out = r.from /\ x.in # x.out
          /\ x.rel_type = r.type
    /\ \E x, y \in relates : x.in = y.in /\ x.out = y.out /\ x.rel_type # y.rel_type


\* ============================================================= SpecValidate
\* remember with requests that hold malformed items beside well-formed ones.
\* No store call raises here.
MalformedEntityInputs ==
    { [content |-> "x", confidence |-> None, importance |-> None],
      [id |-> <<"a">>, confidence |-> None, importance |-> None],
      [PlainEntity(<<"a">>) EXCEPT !.id = <<>>],
      [PlainEntity(<<"a">>) EXCEPT !.id = <<" ">>],
      [PlainEntity(<<"a">>) EXCEPT !.content = ""],
      [id |-> <<"a">>, content |-> "x", confidence |-> None, importance |-> None,
       labels_str |-> "l"],
      [PlainEntity(<<"a">>) EXCEPT !.confidence = <<IScale + 500>>],
      [PlainEntity(<<"a">>) EXCEPT !.confidence = <<0 - 100>>] }

MalformedRelationInputs ==
    { [to |-> <<"b">>, type |-> "r", weight |-> 1000],
      [from |-> <<"a">>, type |-> "r", weight |-> 1000],
      [from |-> <<"a">>, to |-> <<"b">>, weight |-> 1000],
      [from |-> <<"a">>, to |-> <<>>, type |-> "r", weight |-> 1000],
      [from |-> <<"a">>, to |-> <<"b">>, type |-> " ", weight |-> 1000],
      [from |-> <<"a">>, to |-> <<"b">>, type |-> "r", weight_str |-> "heavy"] }

\* Entity lists: well-formed ones, and ones with a malformed item after or
\* before a well-formed one.
ValidateEntityLists ==
    {<<>>, <<PlainEntity(<<"a">>)>>, <<PlainEntity(<<"b">>)>>,
     <<PlainEntity(<<"a">>), PlainEntity(<<"b">>)>>}
        \cup {<<PlainEntity(<<"b">>), m>> : m \in MalformedEntityInputs}
        \cup {<<m, PlainEntity(<<"b">>)>> : m \in MalformedEntityInputs}

ValidateRelationLists ==
    {<<>>} \cup {<<r>> : r \in RelationInputs}
           \cup {<<r, m>> : r \in RelationInputs, m \in MalformedRelationInputs}
           \cup {<<m>> : m \in MalformedRelationInputs}

NextValidate ==
    \E ents \in ValidateEntityLists, rels \in ValidateRelationLists : remember(ents, rels, 0)

SpecValidate == Init /\ [][NextValidate]_vars

\* C17: a remember call whose request holds a malformed entity or relation
\* anywhere ends in an error and leaves both tables as they were; a call
\* that stores anything was given well-formed items only.
C17_MalformedStoresNothing ==
    [][ Returns("remember") =>
          /\ last'.status = "ok" =>
                /\ last'.res.upserted \cap MalformedEntityInputs = {}
                /\ last'.res.related \cap MalformedRelationInputs = {}
          /\ last'.status = "error" =>
                /\ entity' = entity /\ relates' = relates
                /\ \/ SeqRange(last'.res.rejected.entities) \cap MalformedEntityInputs # {}
                   \/ SeqRange(last'.res.rejected.relations) \cap MalformedRelationInputs # {} ]_vars

\* remember has refused a request whose first entity is well-formed and not
\* stored, whose second entity is malformed, and whose relation is
\* well-formed: neither the entity nor the relation is in the tables, which
\* hold an earlier entity.
C17_Witness ==
    /\ last.op = "remember" /\ last.status = "error"
    /\ Len(last.res.rejected.entities) = 2
    /\ last.res.rejected.entities[1] = PlainEntity(<<"b">>)
    /\ last.res.rejected.entities[2] \in MalformedEntityInputs
    /\ Len(last.res.rejected.relations) = 1
    /\ last.res.rejected.relations[1] \in RelationInputs
    /\ entity[<<"b">>] = NoEntity
    /\ entity[<<"a">>] # NoEntity
    /\ relates = {}

\* =========================================================== SpecImportance
\* Importance scoring: entities stored with and without an 'importance',
\* related, retrieved, forgotten, and rescored by remember and by reflect.
\* The 'importance' values a caller gives: none, 0.8, 5.0 and -0.5.
ImportanceInputs == {None, <<800>>, <<5000>>, <<0 - 500>>}

NextImportance ==
    \/ \E id \in RememberIds, imp \in ImportanceInputs :
          remember(<<[PlainEntity(id) EXCEPT !.importance = imp]>>, <<>>, 0)
    \/ \E r \in RelationInputs : remember(<<>>, <<r>>, 0)
    \/ \E id \in RememberIds : get_entity(id)
    \/ \E id \in RememberIds : forget(id)
    \/ ReflectBegin(FALSE, 1, FALSE, 850, FALSE, TRUE)
    \/ ReflectRecalc
    \/ ReflectReturn

SpecImportance == Init /\ [][NextImportance]_vars

\* C5: every stored entity's importance lies in [0, 1] in every reachable
\* state.
C5_ImportanceInUnitRange ==
    \A id \in Stored(entity) :
        0 <= entity[id].importance /\ entity[id].importance <= IScale


\* What the formula gives for the row of id as it is stored now.
FormulaOf(ent, rel, id) ==
    ImportanceOf(query_get_entity_connectivity(rel, id),
                 ent[id].access_count, ent[id].user_importance)

\* The stored importance is above what the formula gives now.
StaleHigh(ent, rel, id) == ent[id].importance > FormulaOf(ent, rel, id)

\* C15 (as stated): the stored importance of an entity that stays stored
\* goes down in a step only if the step lowers its user_importance.
C15_NeverGoesDown ==
    [][ \A id \in Stored(entity) \cap Stored(entity') :
          entity'[id].importance < entity[id].importance =>
              user_score(entity'[id].user_importance)
                  < user_score(entity[id].user_importance) ]_vars

\* C15 (amended): the stored importance of an entity that stays stored goes
\* down in a step only if the step lowers its user_importance or the stored
\* value was above the formula's value already; and it gets above the
\* formula's value only in a step that takes an incident relation away or
\* lowers its user_importance.  So a recomputation lowers it only after a
\* lowered user_importance or a lost relation, never after gains alone.
C15_GoesDownOnlyAfterLoss ==
    [][ \A id \in Stored(entity) \cap Stored(entity') :
          /\ entity'[id].importance < entity[id].importance =>
                \/ user_score(entity'[id].user_importance)
                      < user_score(entity[id].user_importance)
                \/ StaleHigh(entity, relates, id)
          /\ (~StaleHigh(entity, relates, id) /\ StaleHigh(entity', relates', id)) =>
                \/ query_get_entity_connectivity(relates', id)
                      < query_get_entity_connectivity(relates, id)
                \/ user_score(entity'[id].user_importance)
                      < user_score(entity[id].user_importance) ]_vars

\* reflect has recomputed the importance of an entity that had gained a
\* relation and an access and then lost the relation again: the stored
\* value is the formula's value for one access and no relation.
C15_Witness ==
    /\ last.op = "reflect" /\ last.status = "ok"
    /\ last.res.importance_recalculated >= 1
    /\ relates = {}
    /\ \E id \in Stored(entity) :
          /\ entity[id].access_count = 1
          /\ entity[id].user_importance = None
          /\ entity[id].importance = ImportanceOf(0, 1, None)
          /\ entity[id].importance > (4 * DefaultImportance) \div 10

\* C16: after every step that changes the access_count or the number of
\* incident relations of an entity that stays stored, its stored importance
\* is the formula's value for its current relation count, access_count and
\* user_importance.
C16_ImportanceFollowsMutation ==
    [][ \A id \in Stored(entity) \cap Stored(entity') :
          (\/ entity'[id].access_count # entity[id].access_count
           \/ query_get_entity_connectivity(relates', id)
                 # query_get_entity_connectivity(relates, id)) =>
              entity'[id].importance = FormulaOf(entity', relates', id) ]_vars

\* ================================================================ SpecMerge
\* The duplicate scan of reflect over rows of different similarity, access
\* count and age.
\* What the ids hold: a is near b and near c:d (0.866), b and c:d are at 0.5.
MaintEntity(id) ==
    [ id |-> id,
      content |-> IF id = <<"a">> THEN "y" ELSE IF id = <<"b">> THEN "x" ELSE "z",
      confidence |-> None, importance |-> None ]

\* similarity_threshold: 0.5, 0.85, and 1.5 (refused)
ThresholdInputs == {500, 850, 1500}

NextMerge ==
    \/ \E id \in Ids : remember(<<MaintEntity(id)>>, <<>>, 0)
    \/ \E id \in Ids : get_entity(id)
    \/ \E thr \in ThresholdInputs, am \in BOOLEAN :
          ReflectBegin(FALSE, 1, TRUE, thr, am, FALSE)
    \/ \E order \in Orders(Stored(entity)) : ReflectFetch(order)
    \/ ReflectNextEntity
    \/ \E c \in refl.similar : ReflectCandidate(c)
    \/ ReflectReturn

SpecMerge == Init /\ [][NextMerge]_vars

\* The unordered pair of a reported or handled pair of ids.
Unordered(id1, id2) == {id1, id2}

\* C1: when a reflect call with auto_merge returns, exactly one entity of
\* every pair it handled as a duplicate pair is still stored.
C1_ExactlyOneSurvives ==
    [][ (Returns("reflect") /\ last'.status = "ok" /\ last'.res.auto_merge) =>
          \A p \in last'.res.seen_pairs :
              Cardinality({x \in {extract_record_id(p[1]), extract_record_id(p[2])} :
                              entity'[x] # NoEntity}) = 1 ]_vars

\* C26 (as claimed): once an auto-merge pass has deleted an entity, no
\* later comparison of that pass involves it: a candidate that is not
\* skipped is never compared with a scanned entity that was already
\* deleted, and no delete is issued for a pair with a deleted entity.
C26_DeletedNeverCompared ==
    [][ (refl.pc = "cand" /\ refl.auto_merge /\ refl' # refl) =>
          /\ \A c \in refl.similar \ refl'.similar :
                c.id \notin refl.deleted_ids => refl.cur.id \notin refl.deleted_ids
          /\ refl'.merged > refl.merged => refl.cur.id \notin refl.deleted_ids ]_vars

\* C29 (as claimed): merged counts the entities the pass removed from the
\* store: every step that adds one to merged removes exactly one stored
\* row, one that was not deleted before in the pass.
C29_MergedCountsRemovals ==
    [][ (refl.pc = "cand" /\ refl'.merged > refl.merged) =>
          /\ Cardinality(Stored(entity) \ Stored(entity')) = 1
          /\ refl'.deleted_ids # refl.deleted_ids
          /\ refl'.merged = Cardinality(refl'.deleted_ids) ]_vars

\* C6: the similar_pairs of a reflect call, while it runs and in its
\* result, never hold two entries for the same unordered pair.
C6_PairsReportedOnce ==
    LET NoRepeat(sp) ==
            \A m, n \in 1..Len(sp) :
                Unordered(sp[m].entity1, sp[m].entity2)
                    = Unordered(sp[n].entity1, sp[n].entity2) => m = n
    IN  /\ NoRepeat(refl.similar_pairs)
        /\ (last.op = "reflect" /\ last.status = "ok") => NoRepeat(last.res.similar_pairs)

\* A report-only reflect has returned two pairs after it met each of them
\* from both sides (every row was scanned with both others as neighbours).
C6_Witness ==
    /\ last.op = "reflect" /\ last.status = "ok" /\ ~last.res.auto_merge
    /\ Len(last.res.similar_pairs) >= 2
    /\ Cardinality(Stored(entity)) = 3
    /\ last.res.deleted_ids = {}


\* The unordered pairs that the store and the threshold fix: every stored
\* row with every row its neighbour query returns at or above thr.
SimilarPairsOf(ent, thr) ==
    UNION { { Unordered(RecordIdStr(x), c.id) :
                c \in {d \in query_similar_by_embedding(ent, ent[x].emb, RecordIdStr(x)) :
                          d.sim >= thr} } :
            x \in Stored(ent) }

\* C14: the set of unordered pairs that a report-only reflect call returns
\* is fixed by the store and the threshold alone: whatever the order the
\* rows were scanned in and the neighbours were listed in, it is the set of
\* pairs of a stored row with a neighbour at or above the threshold.
C14_ReportedPairsFixedByStore ==
    [][ (Returns("reflect") /\ last'.status = "ok"
            /\ last'.res.find_similar /\ ~last'.res.auto_merge) =>
          /\ entity' = entity
          /\ { Unordered(p.entity1, p.entity2) : p \in SeqRange(last'.res.similar_pairs) }
                = SimilarPairsOf(entity, last'.res.threshold) ]_vars

\* A report-only reflect over three rows has returned two pairs, and the
\* row it scanned first was the last one in id order.
C14_Witness ==
    /\ last.op = "reflect" /\ last.status = "ok"
    /\ last.res.find_similar /\ ~last.res.auto_merge
    /\ last.res.threshold = 500
    /\ Cardinality(Stored(entity)) = 3
    /\ Len(last.res.similar_pairs) = 3
    /\ last.res.similar_pairs[1].entity1 = RecordIdStr(<<"c", ":", "d">>)

\* ================================================================ SpecMaint
\* The maintenance tools with store and classifier calls that can fail:
\* the duplicate scan of reflect and bulk check_contradictions.
NextMaint ==
    \/ \E id \in Ids : remember(<<MaintEntity(id)>>, <<>>, 0)
    \/ \E thr \in ThresholdInputs, am \in BOOLEAN :
          ReflectBegin(FALSE, 1, TRUE, thr, am, FALSE)
    \/ \E order \in Orders(Stored(entity)) : ReflectFetch(order)
    \/ ReflectNextEntity
    \/ \E c \in refl.similar : ReflectCandidate(c)
    \/ ReflectReturn
    \/ ReflectRaise
    \/ CcBegin
    \/ \E order \in Orders(Stored(entity)) : CcFetch(order)
    \/ \E empty \in BOOLEAN, nli \in NliAnswers : CcPair(empty, nli)
    \/ CcReturn
    \/ CcRaise

SpecMaint == Init /\ [][NextMaint]_vars

\* The cosine similarity of the rows that a logged pair names.
PairCosine(rows, p) ==
    LET e1 == CHOOSE r \in SeqRange(rows) : r.id = p.entity1
        e2 == CHOOSE r \in SeqRange(rows) : r.id = p.entity2
    IN  Cosine(e1.emb, e2.emb)

\* C7: bulk check_contradictions asks the classifier about a pair only if
\* the pair's cosine similarity is above 0.5 and the similarity query gave
\* a row, and about no unordered pair twice.
C7_ClassifiesOnlyRelatedPairs ==
    LET Ok(rows, calls, sims) ==
            /\ \A m \in 1..Len(calls) :
                  /\ PairCosine(rows, calls[m]) > SimScale \div 2
                  /\ calls[m].sim = PairCosine(rows, calls[m])
                  /\ calls[m].entity1 # calls[m].entity2
            /\ \A m, n \in 1..Len(calls) :
                  Unordered(calls[m].entity1, calls[m].entity2)
                      = Unordered(calls[n].entity1, calls[n].entity2) => m = n
    IN  /\ Ok(cc.entities, cc.nli_calls, cc.sims)
        /\ (last.op = "check_contradictions" /\ last.status = "ok")
              => Ok(last.res.entities, last.res.nli_calls, last.res.sims)

\* A bulk check over three rows has returned: one pair was classified, the
\* pair at exactly 0.5 was not, and a pair whose similarity query gave no
\* row was not.
C7_Witness ==
    /\ last.op = "check_contradictions" /\ last.status = "ok"
    /\ Len(last.res.entities) = 3 /\ Len(last.res.sims) = 3
    /\ Len(last.res.nli_calls) = 1
    /\ Len(last.res.contradictions) = 1
    /\ \E m \in 1..3 : last.res.sims[m].sim = SimScale \div 2
    /\ \E m \in 1..3 : /\ last.res.sims[m].sim = 0
                        /\ PairCosine(last.res.entities, last.res.sims[m]) > SimScale \div 2

\* C9 (as claimed): a store or classifier call that fails for an entity or
\* a pair inside the duplicate scan or the bulk contradiction loop does not
\* make the call fail as a whole.
C9_SkipsAndContinues ==
    [][ /\ Returns("reflect") => ~(last'.status = "error" /\ last'.res.at \in {"scan", "cand"})
        /\ Returns("check_contradictions")
              => ~(last'.status = "error" /\ last'.res.at = "pair") ]_vars

\* C9 (amended): such a failure ends the call with an error at once, with
\* both tables as the completed steps left them (what the scan deleted
\* stays deleted) and with nothing further processed; and no item is ever
\* passed over: the scan leaves a row that is not in deleted_ids only after
\* it has asked for its neighbours, and the contradiction loop leaves a pair
\* only after it has its similarity.
C9_FailsAsAWhole ==
    [][ /\ (Returns("reflect") /\ last'.status = "error" /\ last'.res.at \in {"scan", "cand"})
              => /\ refl' = ReflIdle
                 /\ entity' = entity /\ relates' = relates
                 /\ \A d \in last'.res.deleted_ids :
                        entity'[extract_record_id(d)] = NoEntity
        /\ (Returns("check_contradictions") /\ last'.status = "error")
              => (cc' = CcIdle /\ entity' = entity /\ relates' = relates)
        /\ (refl.pc = "scan" /\ refl.todo # <<>> /\ refl'.pc = "scan")
              => \/ Head(refl.todo).id \in refl.deleted_ids
                 \/ query_similar_by_embedding(entity, Head(refl.todo).emb,
                                               Head(refl.todo).id) = {}
        /\ (cc.pc = "pair" /\ cc'.pc \in {"pair", "return"})
              => Len(cc'.sims) = Len(cc.sims) + 1 ]_vars

\* An auto-merge scan has ended in an error after it had deleted a row, and
\* rows it had not reached are still stored.
C9_Witness ==
    /\ last.op = "reflect" /\ last.status = "error"
    /\ last.res.at \in {"scan", "cand"}
    /\ last.res.deleted_ids # {}
    /\ \A d \in last.res.deleted_ids : entity[extract_record_id(d)] = NoEntity
    /\ Stored(entity) # {}
    /\ refl = ReflIdle


\* =============================================================== SpecRelate
\* Relations created again with another weight or the other way round, and
\* entities forgotten and relations created on their ids afterwards.
RelateInputs ==
    RelationInputs \cup { [from |-> <<"a">>, to |-> <<"b">>, type |-> "r", weight |-> 500] }

NextRelate ==
    \/ \E id \in RememberIds : remember(<<PlainEntity(id)>>, <<>>, 0)
    \/ \E r \in RelateInputs : remember(<<>>, <<r>>, 0)
    \/ \E id \in RememberIds \cup {<<>>} : forget(id)

SpecRelate == Init /\ [][NextRelate]_vars

\* C11: a remember call that creates a relation whose from, to and type are
\* those of a stored relation returns without error and leaves exactly one
\* such relation, with the weight the call gave.
C11_RecreateUpdatesWeight ==
    [][ Returns("remember") =>
          \A r \in last'.res.related :
              (\E x \in relates : x.in = r.from /\ x.out = r.to /\ x.rel_type = r.type)
              => /\ last'.status = "ok"
                 /\ Cardinality({x \in relates' : x.in = r.from /\ x.out = r.to
                                                   /\ x.rel_type = r.type}) = 1
                 /\ \A x \in relates' :
                        (x.in = r.from /\ x.out = r.to /\ x.rel_type = r.type)
                            => x.weight = r.weight ]_vars

\* C20: when remember returns right after a forget that deleted entity X,
\* and X is not stored, no relation has X as an endpoint.
C20_NoRelationOnDeletedEntity ==
    [][ (last.op = "forget" /\ last.status = "ok" /\ last.res.existed
            /\ Returns("remember")) =>
          \A X \in last.ids :
              entity'[X] = NoEntity => \A r \in relates' : r.in # X /\ r.out # X ]_vars


\* ============================================================ SpecMergeAged
\* The duplicate scan over rows that were stored or retrieved on different
\* days.
NextMergeAged ==
    \/ Tick
    \/ NextMerge

SpecMergeAged == Init /\ [][NextMergeAged]_vars

\* Does row x beat row y in a merge: the higher access_count, or on equal
\* counts the later accessed time.
Beats(x, y) ==
    \/ x.access_count > y.access_count
    \/ (x.access_count = y.access_count /\ x.accessed > y.accessed)

\* C12: in every step in which the scan merges a pair (the scanned row e
\* and a candidate c), the row that beats the other is stored afterwards
\* and the other is not.
C12_HigherCountSurvives ==
    [][ (refl.pc = "cand" /\ refl'.merged = refl.merged + 1) =>
          LET e == refl.cur
              c == CHOOSE x \in refl.similar : x \notin refl'.similar
          IN  /\ Beats(e, c) => /\ entity'[extract_record_id(e.id)] # NoEntity
                                /\ entity'[extract_record_id(c.id)] = NoEntity
              /\ Beats(c, e) => /\ entity'[extract_record_id(c.id)] # NoEntity
                                /\ entity'[extract_record_id(e.id)] = NoEntity ]_vars


\* ============================================================== SpecCluster
\* Auto-merge over a store with more rows than one neighbour query returns:
\* two groups of KnnLimit rows each, equal texts inside a group (similarity
\* 1.0) and 0.866 between the groups.
ClusterIds == { <<g, Alphabet[k]>> : g \in {"a", "b"}, k \in 1..KnnLimit }

ClusterEntity(id) ==
    [ id |-> id, content |-> IF id[1] = "a" THEN "x" ELSE "y",
      confidence |-> None, importance |-> None ]

\* The ids of S in the order of their record-id strings.
Ascending(S) ==
    [k \in 1..Cardinality(S) |->
        CHOOSE x \in S :
            Cardinality({y \in S : StrLess(RecordIdStr(y), RecordIdStr(x))}) = k - 1]

Reverse(q) == [k \in 1..Len(q) |-> q[Len(q) + 1 - k]]

\* The rows of one group, in the order of their ids: one remember call.
GroupList(g) ==
    LET q == Ascending({id \in ClusterIds : id[1] = g})
    IN  [k \in 1..Len(q) |-> ClusterEntity(q[k])]

\* The candidate that a neighbour query lists first: rows come back
\* nearest first, rows at the same distance in the order of their ids.
FirstListed(similar) ==
    {c \in similar : \A d \in similar \ {c} :
        c.sim > d.sim \/ (c.sim = d.sim /\ StrLess(c.id, d.id))}

\* The heads of the two groups, which are retrieved by id.
ClusterHeads == { <<"a", "0">>, <<"b", "0">> }

InitCluster ==
    /\ entity = [id \in ClusterIds |-> NoEntity]
    /\ relates = {}
    /\ now = 0
    /\ npass = [id \in ClusterIds |-> 0]
    /\ refl = ReflIdle
    /\ cc = CcIdle
    /\ last = [op |-> "none", status |-> "ok", ids |-> {}, at |-> 0, res |-> NoValue]
    /\ parked = ReflIdle
    /\ loader = LoaderIdle

NextCluster ==
    \/ \E g \in {"a", "b"} : remember(GroupList(g), <<>>, 0)
    \/ \E id \in ClusterHeads : get_entity(id)
    \/ \E thr \in ThresholdInputs : ReflectBegin(FALSE, 1, TRUE, thr, TRUE, FALSE)
    \/ \E order \in {Ascending(Stored(entity)), Reverse(Ascending(Stored(entity)))} :
          ReflectFetch(order)
    \/ ReflectNextEntity
    \/ \E c \in FirstListed(refl.similar) : ReflectCandidate(c)
    \/ ReflectReturn

SpecCluster == InitCluster /\ [][NextCluster]_vars

\* C13: an auto-merge pass that starts right after an auto-merge pass with
\* the same threshold has returned deletes nothing and returns merged = 0.
C13_SecondPassMergesNothing ==
    [][ (Returns("reflect") /\ last'.status = "ok"
            /\ last'.res.find_similar /\ last'.res.auto_merge
            /\ last.status = "running"
            /\ last.res.prev_pass = <<last'.res.threshold>>) =>
          (last'.res.merged = 0 /\ last'.res.deleted_ids = {}) ]_vars

\* =============================================================== SpecPhases
\* reflect with any of its three phases enabled, over rows that are related,
\* retrieved and aged.
PhaseRelations ==
    { [from |-> <<"a">>, to |-> <<"b">>, type |-> "r", weight |-> 1000],
      [from |-> <<"c", ":", "d">>, to |-> <<"a">>, type |-> "r", weight |-> 1000] }

NextPhases ==
    \/ Tick
    \/ \E id \in Ids : remember(<<MaintEntity(id)>>, <<>>, 0)
    \/ \E r \in PhaseRelations : remember(<<>>, <<r>>, 0)
    \/ get_entity(<<"a">>)
    \/ /\ \A id \in Ids : npass[id] < ShortPasses
       /\ \E ad, rc \in BOOLEAN : ReflectBegin(ad, 1, TRUE, 500, TRUE, rc)
    \/ \E order \in {Ascending(Stored(entity)), Reverse(Ascending(Stored(entity)))} :
          ReflectFetch(order)
    \/ ReflectNextEntity
    \/ \E c \in FirstListed(refl.similar) : ReflectCandidate(c)
    \/ ReflectRecalc
    \/ ReflectReturn

SpecPhases == Init /\ [][NextPhases]_vars

\* The rows that are stored before and after the step.
Staying == Stored(entity) \cap Stored(entity')

\* C21: within one reflect call the phases run in the order decay, scan and
\* merge, importance: once the call is past its decay pass no decay_weight
\* changes; rows are deleted only by the merge steps of the scan; the
\* importance changes only in the importance pass, which deletes nothing and
\* is never followed by a scan step; and when a call with the importance pass
\* returns, every stored importance is the formula's value for the relations
\* in the table, none of which has an entity deleted by the call at an end.
C21_PhasesInOrder ==
    [][ /\ refl.pc # "idle" =>
              \A id \in Staying : entity'[id].decay_weight = entity[id].decay_weight
        /\ (Stored(entity') # Stored(entity) \/ relates' # relates) =>
              (refl.pc \in {"idle", "cand"} /\ (refl.pc = "idle" => refl' = refl))
        /\ refl.pc \in {"fetch", "scan", "cand", "return"} =>
              \A id \in Staying : entity'[id].importance = entity[id].importance
        /\ refl.pc = "recalc" => refl'.pc = "return"
        /\ refl.pc = "return" => refl'.pc \in {"return", "idle"}
        /\ (Returns("reflect") /\ last'.status = "ok" /\ refl.recalc) =>
              /\ \A id \in Stored(entity) :
                    entity[id].importance = FormulaOf(entity, relates, id)
              /\ \A r \in relates :
                    /\ RecordIdStr(r.in) \notin refl.deleted_ids
                    /\ RecordIdStr(r.out) \notin refl.deleted_ids ]_vars

\* A reflect call has decayed a row, merged a row away that had a relation
\* to a surviving row, and recomputed the importance of the survivors.
C21_Witness ==
    /\ last.op = "reflect" /\ last.status = "ok"
    /\ last.res.decayed >= 1
    /\ last.res.merged >= 1
    /\ last.res.importance_recalculated >= 1
    /\ \E id \in Stored(entity) :
          /\ entity[id].access_count = 1
          /\ entity[id].importance = ImportanceOf(0, 1, None)
    /\ relates = {}

\* =============================================================== SpecReport
\* The report-only duplicate scan over rows that are related and retrieved.
NextReport ==
    \/ \E id \in Ids : remember(<<MaintEntity(id)>>, <<>>, 0)
    \/ \E r \in PhaseRelations : remember(<<>>, <<r>>, 0)
    \/ \E id \in Ids : get_entity(id)
    \/ \E thr \in ThresholdInputs : ReflectBegin(FALSE, 1, TRUE, thr, FALSE, FALSE)
    \/ \E order \in Orders(Stored(entity)) : ReflectFetch(order)
    \/ ReflectNextEntity
    \/ \E c \in refl.similar : ReflectCandidate(c)
    \/ ReflectReturn

SpecReport == Init /\ [][NextReport]_vars

\* C22: without auto_merge the duplicate scan changes neither table and
\* counts no merge; a step that meets a new pair appends one entry for it to
\* similar_pairs, and the call returns merged = 0 and one entry per pair met.
C22_ReportOnlyScanMutatesNothing ==
    [][ (refl.pc \in {"fetch", "scan", "cand"} /\ ~refl.auto_merge) =>
          /\ entity' = entity /\ relates' = relates
          /\ refl'.merged = 0 /\ refl'.deleted_ids = {}
          /\ IF refl.pc = "cand" /\ refl'.seen_pairs # refl.seen_pairs
             THEN \E c \in refl.similar :
                    /\ c.sim >= refl.threshold
                    /\ refl'.seen_pairs = refl.seen_pairs \cup {pair_key(refl.cur.id, c.id)}
                    /\ refl'.similar_pairs =
                          Append(refl.similar_pairs,
                                 [entity1 |-> refl.cur.id, entity2 |-> c.id,
                                  similarity |-> c.sim])
             ELSE refl'.similar_pairs = refl.similar_pairs ]_vars

\* A report-only reflect has returned pairs over rows that are related:
\* the rows and their relations are all still there.
C22_Witness ==
    /\ last.op = "reflect" /\ last.status = "ok"
    /\ last.res.find_similar /\ ~last.res.auto_merge
    /\ last.res.merged = 0
    /\ Len(last.res.similar_pairs) = 3
    /\ Cardinality(Stored(entity)) = 3
    /\ relates # {}

\* ================================================================ SpecContra
\* check_contradictions in both modes over rows the classifier answers
\* about in every way.
TargetInputs == { <<"a">>, <<"b">> }

NextContra ==
    \/ \E id \in Ids : remember(<<MaintEntity(id)>>, <<>>, 0)
    \/ CcBegin
    \/ \E order \in Orders(Stored(entity)) : CcFetch(order)
    \/ \E nli \in NliAnswers : CcPair(FALSE, nli)
    \/ \E entity_id \in TargetInputs : CcBeginTarget(entity_id)
    \/ CcTarget
    \/ CcSimilar
    \/ \E other \in cc.similar, nli \in NliAnswers : CcOther(other, nli)
    \/ CcReturn
    \/ CcRaise

SpecContra == Init /\ [][NextContra]_vars

\* Was this classifier call answered with the label 'contradiction'.
LabelledContradiction(call) == call.nli.label = "contradiction"

\* The Contradiction entries that a log of classifier calls stands for: one
\* per call labelled 'contradiction', in the order of the calls, with the
\* contradiction score of that call.
ReportFor(calls) ==
    LET hits == SelectSeq(calls, LabelledContradiction)
    IN  [ k \in 1..Len(hits) |->
            [ entity1 |-> hits[k].entity1, entity2 |-> hits[k].entity2,
              confidence |-> hits[k].nli.scores.contradiction ] ]

\* C23: check_contradictions, with a target entity and in bulk, returns
\* exactly one Contradiction per classifier call whose label was
\* 'contradiction' and none for a call labelled 'entailment' or 'neutral';
\* the confidence of each is the contradiction score of that same call.
C23_OnePerContradictionCall ==
    /\ cc.contradictions = ReportFor(cc.nli_calls)
    /\ (last.op = "check_contradictions" /\ last.status = "ok")
          => last.res.contradictions = ReportFor(last.res.nli_calls)

\* A check with a target has returned after two classifier calls, one
\* labelled 'contradiction' with score 0.6 and one labelled otherwise.
C23_Witness ==
    /\ last.op = "check_contradictions" /\ last.status = "ok"
    /\ last.res.target = << <<"b">> >>
    /\ Len(last.res.nli_calls) = 2
    /\ Len(last.res.contradictions) = 1
    /\ last.res.contradictions[1].confidence = 600
    /\ \E m \in 1..2 : last.res.nli_calls[m].nli.label = "neutral"

\* ================================================================ SpecScreen
\* remember with detect_contradictions over a store that already holds
\* rows, with classifier answers of every kind and calls that raise.
ScreenEntity(id, content) ==
    [id |-> id, content |-> content, confidence |-> None, importance |-> None]

\* The requests: one entity, two entities, and the same id twice.
ScreenRequests ==
    { <<ScreenEntity(<<"a">>, "x")>>, <<ScreenEntity(<<"c", ":", "d">>, "x")>>,
      <<ScreenEntity(<<"a">>, "x"), ScreenEntity(<<"b">>, "y")>>,
      <<ScreenEntity(<<"b">>, "x"), ScreenEntity(<<"b">>, "y")>> }

\* The classifier calls that answer 'contradiction': none, one call of
\* the first entity, or every call about the row a or c:d.
ContraInputs ==
    { {}, {<<1, RecordIdStr(<<"b">>)>>},
      {1, 2} \X {RecordIdStr(<<"a">>), RecordIdStr(<<"c", ":", "d">>)} }

NextScreen ==
    \/ \E id \in Ids : remember(<<MaintEntity(id)>>, <<>>, 0)
    \/ \E ents \in ScreenRequests, contra \in ContraInputs :
          \E failAt \in 0..8 : remember_detect(ents, contra, failAt)

SpecScreen == Init /\ [][NextScreen]_vars

IsNliEvent(ev) == ev.kind = "nli"

\* The position of the event of kind `kind` of the k-th entity in a list
\* of events, 0 when there is none.
EventIndex(events, kind, k) ==
    IF \E m \in 1..Len(events) : events[m].kind = kind /\ events[m].k = k
    THEN CHOOSE m \in 1..Len(events) : events[m].kind = kind /\ events[m].k = k
    ELSE 0

\* C24: remember with detect_contradictions screens each entity against
\* the store as it is before that entity is upserted (the rows stored
\* before the call and the earlier entities of the same call), asks the
\* classifier once per screened row and reports one Contradiction per row
\* labelled 'contradiction', never compares an entity with the stored row
\* of its own id, and upserts the entity whether or not contradictions
\* were found.
C24_ScreensThenUpserts ==
    [][ (Returns("remember") /\ "events" \in DOMAIN last'.res) =>
          LET req == last'.res.request
              ev == last'.res.events
              before(k) == UpsertPrefix(entity, req, k - 1, now)
          IN  /\ \A m \in 1..Len(ev) :
                    LET k == ev[m].k
                        s == EventIndex(ev, "screen", k)
                    IN  /\ s > 0 /\ s <= m
                        /\ ev[m].kind = "screen" =>
                              /\ {r.id : r \in SeqRange(ev[m].rows)}
                                    = {RecordIdStr(x) :
                                         x \in Nearest(before(k), embed(req[k].content))
                                                 \ {req[k].id}}
                              /\ \A r \in SeqRange(ev[m].rows) :
                                    r.content = before(k)[extract_record_id(r.id)].content
                        /\ ev[m].kind = "nli" =>
                              /\ ev[m].entity2 # RecordIdStr(req[k].id)
                              /\ \E r \in SeqRange(ev[s].rows) : r.id = ev[m].entity2
                              /\ \A n \in 1..Len(ev) :
                                    (ev[n].kind = "nli" /\ ev[n].k = k
                                       /\ ev[n].entity2 = ev[m].entity2) => n = m
                        /\ ev[m].kind = "upsert" =>
                              \A r \in SeqRange(ev[s].rows) :
                                  \E n \in (s + 1)..(m - 1) :
                                      ev[n].kind = "nli" /\ ev[n].k = k /\ ev[n].entity2 = r.id
              /\ last'.res.contradictions = ReportFor(SelectSeq(ev, IsNliEvent))
              /\ last'.status = "ok" =>
                    /\ \A k \in 1..Len(req) : EventIndex(ev, "upsert", k) > 0
                    /\ entity' = RecalculateAll(UpsertPrefix(entity, req, Len(req), now),
                                                relates, {e.id : e \in SeqRange(req)})
              /\ last'.status = "error" =>
                    entity' = UpsertPrefix(entity, req,
                                           Len(SelectSeq(ev, IsUpsertEvent)), now) ]_vars

\* A screening remember has returned: the entity was stored before with
\* another content, both other rows were screened, one was reported as a
\* contradiction and one was not, and the entity holds the new content.
C24_Witness ==
    /\ last.op = "remember" /\ last.status = "ok"
    /\ "events" \in DOMAIN last.res
    /\ last.res.request = <<ScreenEntity(<<"a">>, "x")>>
    /\ Len(SelectSeq(last.res.events, IsNliEvent)) = 2
    /\ Len(last.res.contradictions) = 1
    /\ last.res.contradictions[1].entity2 = RecordIdStr(<<"b">>)
    /\ entity[<<"a">>].content = "x"
    /\ entity[<<"a">>].access_count = 0
    /\ entity[<<"b">>] # NoEntity /\ entity[<<"c", ":", "d">>] # NoEntity

\* =============================================================== SpecContext
\* reflect called with a context over rows of two contexts.
ContextNames == {"p", "q"}

ContextEntity(id, c) ==
    [ id |-> id,
      content |-> IF id = <<"a">> THEN "y" ELSE IF id = <<"b">> THEN "x" ELSE "z",
      confidence |-> None, importance |-> None, context |-> <<c>> ]

NextContext ==
    \/ Tick
    \/ \E id \in Ids, c \in ContextNames : remember(<<ContextEntity(id, c)>>, <<>>, 0)
    \/ get_entity(<<"b">>)
    \/ /\ \A id \in Ids : npass[id] < ShortPasses
       /\ \E ad, am \in BOOLEAN : ReflectStart(<<"p">>, ad, 1, TRUE, 850, am, TRUE)
    \/ \E order \in {Ascending(Stored(entity)), Reverse(Ascending(Stored(entity)))} :
          ReflectFetch(order)
    \/ ReflectNextEntity
    \/ \E c \in FirstListed(refl.similar) : ReflectCandidate(c)
    \/ ReflectRecalc
    \/ ReflectReturn

SpecContext == Init /\ [][NextContext]_vars

\* C25 (as claimed): a reflect call with a context leaves every row of
\* another context as it is: no step of the call decays it, deletes it or
\* recomputes its importance.
C25_ContextScopesReflect ==
    [][ LET context == IF refl.pc = "idle" THEN refl'.context ELSE refl.context
        IN  (refl' # refl /\ context # None) =>
               \A id \in Stored(entity) :
                   entity[id].context # context => entity'[id] = entity[id] ]_vars

\* =============================================================== SpecDecayTz
\* The decay pass of reflect on hosts in different time zones, with the
\* clock moving in half days.
\* The host's offset from UTC: 12 hours behind, UTC, 12 hours ahead.
UtcOffsets == {0 - 1, 0, 1}

NextDecayTz ==
    \/ Advance(1)
    \/ \E id \in DecayIds : remember(<<PlainEntity(id)>>, <<>>, 0)
    \/ \E hits \in SUBSET DecayIds : search("q", 2, hits)
    \/ /\ \A id \in Ids : npass[id] < MaxBatch
       /\ \E utc_offset \in UtcOffsets :
             ReflectCall(utc_offset, None, TRUE, 1, FALSE, 850, FALSE, FALSE)
    \/ ReflectReturn

SpecDecayTz == Init /\ [][NextDecayTz]_vars

\* C27 (as claimed): the decay pass of reflect(decay_days=1) multiplies
\* decay_weight by 0.9 once for exactly the rows whose last access is more
\* than one day back and whose weight is above 0.1, leaves every other row
\* and every other field as it is, and reports the number of rows changed;
\* a row retrieved within the last day is not decayed.
C27_DecaysExactlyTheOld ==
    [][ (refl.pc = "idle" /\ refl'.pc # "idle") =>
          LET old == {id \in Stored(entity) :
                         /\ entity[id].accessed < now - Day
                         /\ entity[id].decay_weight > DecayFloor}
          IN  /\ \A id \in Ids :
                    entity'[id] = IF id \in old
                                  THEN [entity[id] EXCEPT !.decay_weight = DecayStep(@)]
                                  ELSE entity[id]
              /\ refl'.decayed = Cardinality(old) ]_vars

\* ================================================================== SpecLoad
\* The preload thread and two callers enter the lazy getters in every
\* interleaving; a constructor may raise.
NextLoad ==
    \/ ThreadStart("preload", <<"_embedder", "_nli_model">>)
    \/ \E t \in Threads \ {"preload"}, g \in ModelNames : ThreadStart(t, <<g>>)
    \/ \E t \in Threads : GetterCheck(t)
    \/ \E t \in Threads : GetterAcquire(t)
    \/ \E t \in Threads : GetterRecheck(t)
    \/ \E t \in Threads, ok \in BOOLEAN : GetterConstruct(t, ok)
    \/ \E t \in Threads : GetterAssign(t)
    \/ \E t \in Threads : GetterRelease(t)
    \/ \E t \in Threads : GetterReturn(t)

SpecLoad == Init /\ [][NextLoad]_vars

\* C28: in every interleaving of the threads that enter the getters, each
\* model is constructed at most once, every caller is handed the one
\* constructed instance of the model it asked for, and the lock is held
\* only by a thread that is inside the with block and waits for nothing
\* (so a thread waiting for the lock is never stuck).
C28_LoadedOnce ==
    /\ \A g \in ModelNames : loader.built[g] <= 1
    /\ \A t \in Threads : \A k \in 1..Len(loader.th[t].got) :
          LET v == loader.th[t].got[k]
          IN  /\ v.instance # None
              /\ v.instance = loader.model[v.asked]
              /\ v.instance[1].name = v.asked
    /\ \A t \in Threads :
          loader.th[t].pc \in {"recheck", "construct", "assign", "release"}
              <=> loader._loading_lock = <<t>>

\* Three threads went for the embedder while it was not loaded: one
\* constructs it inside the lock, the two others wait for the lock.
C28_Witness ==
    /\ loader.th["preload"].pc = "construct"
    /\ \A t \in {"t1", "t2"} : /\ loader.th[t].pc = "acquire"
                                /\ loader.th[t].fn = "_embedder"
    /\ loader.built["_embedder"] = 0

\* ============================================================ SpecInterleave
\* Two auto-merge passes of reflect and searches, interleaved at the awaits,
\* over one pair of duplicates.
PairIds == { <<"a">>, <<"b">> }

NextInterleave ==
    \/ /\ parked.pc = "idle"
       /\ \E id \in PairIds : remember(<<MaintEntity(id)>>, <<>>, 0)
    \/ \E hits \in SUBSET PairIds : search("q", 2, hits)
    \/ ReflectBegin(FALSE, 1, TRUE, 850, TRUE, FALSE)
    \/ ReflectFetch(Ascending(Stored(entity)))
    \/ ReflectNextEntity
    \/ \E c \in refl.similar : ReflectCandidate(c)
    \/ ReflectReturn
    \/ Switch

SpecInterleave == Init /\ [][NextInterleave]_vars

\* C30 (as claimed): when auto-merge passes and searches run interleaved,
\* each delete of a duplicate leaves the other entity of its pair stored:
\* never are both members of a pair deleted.
C30_OneOfEachPairSurvives ==
    [][ (refl.pc = "cand" /\ parked' = parked /\ refl'.merged > refl.merged) =>
          \A p \in refl'.seen_pairs \ refl.seen_pairs :
              \E x \in {extract_record_id(p[1]), extract_record_id(p[2])} :
                  entity'[x] # NoEntity ]_vars

=============================================================================
